---- MODULE Spec2Model ----
(***************************************************************************)
(* pyhydra: the Hydra Head client.                                         *)
(*                                                                         *)
(* The model covers HydraConnection (connections/hydra_connection.py),     *)
(* the status extraction hydra_status (types/hydra_status.py) and the      *)
(* connect() guard of HydraProvider (providers/hydra_provider.py).         *)
(*                                                                         *)
(* A behaviour is the life of one HydraConnection object.  The object is   *)
(* either owned by a HydraProvider (owner = "HydraProvider"; the           *)
(* application then reaches it only through the provider's connect() and   *)
(* its commands, which call send) or constructed and driven directly by    *)
(* the application (owner = "HydraConnection"; connect, send, disconnect). *)
(*                                                                         *)
(* Every call of connect() builds a new WebSocketApp and starts a thread   *)
(* that runs it; the thread delivers the callbacks on_open, on_message,    *)
(* on_error and on_close of that WebSocketApp, one at a time.  Each        *)
(* handler is one action.  send() blocks its caller in a poll loop, so it  *)
(* is modelled by three actions (call, poll, sleep) between which the      *)
(* callbacks of the transport thread may run.                              *)
(*                                                                         *)
(* The listeners of the event emitter are part of the state: the callback  *)
(* of every wait_for_tx_response call in progress, and the callbacks the   *)
(* application registered with on_status_change.  Spec has no listeners;   *)
(* TxSpec is a provider that submits transactions and waits for the        *)
(* node's answers, SubscriberSpec one whose application listens to the     *)
(* status changes.                                                         *)
(***************************************************************************)
EXTENDS Integers, Sequences, FiniteSets

VARIABLES
    owner,      \* which object the application constructed and drives
    pstatus,    \* HydraProvider._status
    status,     \* HydraConnection._status
    connected,  \* HydraConnection._connected
    websocket,  \* HydraConnection._websocket: 0 is None, else the id of a WebSocketApp
    apps,       \* the transport behind every WebSocketApp built so far
    call,       \* the send() call in progress, if any
    ret,        \* how the send() call ended, in the step it returns
    last,       \* the handler that ran last
    prev,       \* HydraConnection._status when that handler was entered
    emitted,    \* the events that handler published on the event emitter, in order
    wire,       \* the calls that handler made on a WebSocketApp, in order
    listeners,  \* the listeners registered on the event emitter, by channel, in order
    waiters,    \* the future of the wait_for_tx_response call in progress, by transaction
    inbound,    \* the frame that handler was given, if it is _on_message
    invoked,    \* the listeners that handler's emits called, in order
    result,     \* what the call or callback that ended in this step gave its caller
    requested,  \* the callbacks the application has passed to HydraProvider.on_message
    race,       \* the threads inside disconnect() and the callbacks, statement by statement
    input,      \* the argument of the function under study
    output      \* what that function gave for it

vars ==
    <<owner, pstatus, status, connected, websocket, apps, call, ret, last, prev,
      emitted, wire, listeners, waiters, inbound, invoked, result,
      requested, race, input, output>>

----------------------------------------------------------------------------
(* Bounds of the model *)

\* WebSocketApp objects one connection may build (connect() calls that go through)
MaxApps == 2

\* the longest a time.sleep(1) may take, in whole seconds
MaxSleep == 2

\* callbacks the application registers with on_status_change
MaxSubscribers == 2

\* status writes made by threads that are followed statement by statement
MaxWrites == 3

\* entries in the list given to hydra_assets
MaxEntries == 3

\* units in a dict given to to_assets or hydra_assets_to_value
MaxUnits == 2

\* characters that follow the transaction id part in a UTxO reference
MaxRefTail == 3

\* len(unit) >= 56: the characters of a policy id in a unit
PolicyChars == 56

----------------------------------------------------------------------------
(* Program constants *)

\* the retry window of send(), in seconds
SendWindow == 5

\* the argument of time.sleep in the poll loop, in seconds
SleepSeconds == 1

\* the close code disconnect() passes to WebSocketApp.close
CloseCode == 1007

HydraStatus ==
    {"IDLE", "DISCONNECTED", "CONNECTING", "CONNECTED", "INITIALIZING",
     "OPEN", "CLOSED", "FANOUT_POSSIBLE", "FINAL"}

\* the value of a key the JSON object does not carry (dict.get returns None)
None == "None"

\* tags of inbound messages: the five head-lifecycle tags hydra_status knows,
\* one it does not, and a message without a tag
Tags ==
    {"HeadIsInitializing", "HeadIsOpen", "HeadIsClosed", "ReadyToFanout",
     "HeadIsFinalized", "Greetings", None}

\* values of the headStatus key (carried by Greetings)
HeadStatusValues == {"Open", "Idle", None}

\* a parsed inbound message, by the two keys hydra_status reads
Messages == [tag : Tags, headStatus : HeadStatusValues]

\* a frame that json.loads rejects
BadFrame == [tag |-> "<not json>", headStatus |-> None]

Frames == Messages \cup {BadFrame}

\* the frame of a step that is not _on_message
NoFrame == [tag |-> "<no frame>", headStatus |-> None]

\* the commands the application sends
Commands == {"Init", "Close"}

\* the cborHex of the transactions the application submits
Txs == {"A", "B"}

\* the calls of wait_for_tx_response that can be pending at once: one for
\* each cborHex, named by it, and two more that are given the cborHex "A"
Waits == Txs \cup {"A2", "A3"}

\* the tx argument of a call of wait_for_tx_response
TxOf(wait) == IF wait \in {"A2", "A3"} THEN "A" ELSE wait

\* the payload new_tx builds for the transaction tx, as send() is given it
NewTx(tx) == IF tx = "A" THEN "NewTx A" ELSE "NewTx B"

\* message["transaction"]["txId"] of the node's answer for tx
TxId(tx) == IF TxOf(tx) = "A" THEN "txId A" ELSE "txId B"

\* json.dumps(message["validationError"]) of the node's answer for tx
ValidationError(tx) == IF TxOf(tx) = "A" THEN "validationError A" ELSE "validationError B"

\* the node's answers to NewTx: tag, transaction.cborHex, and the headStatus
\* key, which such an object may carry too
TxMessages == [tag : {"TxValid", "TxInvalid"}, headStatus : {None, "Open"}, cborHex : Txs]

\* message.get("transaction", {}).get("cborHex")
CborHex(message) == IF "cborHex" \in DOMAIN message THEN message.cborHex ELSE None

----------------------------------------------------------------------------
(* types/hydra_status.py *)

\* hydra_status without the headStatus test
hydra_status_tag_only(value) ==
    CASE value.tag = "HeadIsInitializing" -> "INITIALIZING"
      [] value.tag = "HeadIsOpen"         -> "OPEN"
      [] value.tag = "HeadIsClosed"       -> "CLOSED"
      [] value.tag = "ReadyToFanout"      -> "FANOUT_POSSIBLE"
      [] value.tag = "HeadIsFinalized"    -> "FINAL"
      [] OTHER                            -> None

hydra_status(value) ==
    IF value.headStatus = "Open" THEN "OPEN"
    ELSE CASE value.tag = "HeadIsInitializing" -> "INITIALIZING"
           [] value.tag = "HeadIsOpen"         -> "OPEN"
           [] value.tag = "HeadIsClosed"       -> "CLOSED"
           [] value.tag = "ReadyToFanout"      -> "FANOUT_POSSIBLE"
           [] value.tag = "HeadIsFinalized"    -> "FINAL"
           [] OTHER                            -> None

----------------------------------------------------------------------------
(* The event emitter: what one handler publishes *)

StatusEvent(s) == [channel |-> "onstatuschange", arg |-> s]

MessageEvent(m) == [channel |-> "onmessage", arg |-> m]

\* the status-change events among those a handler published
StatusEvents(events) == SelectSeq(events, LAMBDA e : e.channel = "onstatuschange")

----------------------------------------------------------------------------
(* The listeners of the event emitter.  A listener is either the callback   *)
(* of a wait_for_tx_response(tx) call (on "onmessage") or a callback the    *)
(* application registered (on "onstatuschange"), told apart by its number   *)
(* n; `throws` says whether that callback raises when it is called.         *)

Channels == {"onmessage", "onstatuschange"}

WaiterCallback(tx) == [kind |-> "waiter", tx |-> tx, n |-> 0, throws |-> FALSE]

Subscriber(n, throws) == [kind |-> "subscriber", tx |-> None, n |-> n, throws |-> throws]

NoListeners == [c \in Channels |-> <<>>]

\* no thread is inside disconnect() or a callback taken statement by
\* statement; `written` and `published` are the status writes and the
\* status-change events of such threads, in order
NoThread == [pc |-> "idle", app |-> 0, arg |-> None]

NoRace == [fg |-> NoThread, bg |-> NoThread, written |-> <<>>, published |-> <<>>]

\* the future of a wait_for_tx_response call: "none" when no call is in
\* progress, "pending" from loop.create_future(), then "resolved"
\* (set_result) or "rejected" (set_exception) until the coroutine resumes
FutureStates == {"none", "pending", "resolved", "rejected"}

NoWaiters == [tx \in Waits |-> "none"]

\* future.set_result / future.set_exception: asyncio raises
\* InvalidStateError when the future is already done
SetFuture(w, tx, outcome) ==
    IF w[tx] = "pending"
    THEN [waiters |-> [w EXCEPT ![tx] = outcome], raises |-> None]
    ELSE [waiters |-> w, raises |-> "InvalidStateError"]

\* the callback of wait_for_tx_response that matches on the tag alone
callback_any_tx(tx, message, w) ==
    IF message.tag = "TxValid"
    THEN SetFuture(w, tx, "resolved")
    ELSE IF message.tag = "TxInvalid"
         THEN SetFuture(w, tx, "rejected")
         ELSE [waiters |-> w, raises |-> None]

\* the callback of wait_for_tx_response(tx), called with a message
callback(tx, message, w) ==
    IF message.tag = "TxValid" /\ CborHex(message) = TxOf(tx)
    THEN SetFuture(w, tx, "resolved")
    ELSE IF message.tag = "TxInvalid" /\ CborHex(message) = TxOf(tx)
         THEN SetFuture(w, tx, "rejected")
         ELSE [waiters |-> w, raises |-> None]

\* the attributes HydraProvider.__init__ sets
ProviderAttributes ==
    {"_status", "_http_url", "_event_emitter", "_connection", "_session",
     "_status_callbacks"}

\* the tags HydraProvider.on_message lets through to its callback
RecognizedTags ==
    {"Greetings", "PeerConnected", "onPeerDisconnected", "PeerHandshakeFailure",
     "HeadIsInitializing", "Committed", "HeadIsOpen", "HeadIsClosed",
     "HeadIsContested", "ReadyToFanout", "HeadIsAborted", "HeadIsFinalized",
     "TxValid", "TxInvalid", "SnapshotConfirmed", "GetUTxOResponse",
     "InvalidInput", "PostTxOnChainFailed", "CommandFailed", "IgnoredHeadInitializing",
     "DecommitInvalid", "DecommitRequested", "DecommitApproved", "DecommitFinalized"}

\* the n-th callback the application passed to HydraProvider.on_message
UserCallback(n) == [kind |-> "callback", tx |-> None, n |-> n, throws |-> FALSE]

\* the handle_message closure that on_message builds around it
HandleMessage(n) == [kind |-> "handle_message", tx |-> None, n |-> n, throws |-> FALSE]

\* getattr(message, 'tag', None): the message is a dict, whose keys are not
\* attributes, so the default comes back
GetAttrTag(message) == None

\* handle_message(message): whether it calls the callback
handle_message(message) == GetAttrTag(message) \in RecognizedTags

\* one listener is called with the argument of the event: what it does to
\* the waits, the exception it raises, and the functions called, in order
CallListener(l, arg, w) ==
    CASE l.kind = "waiter" ->
             LET c == callback(l.tx, arg, w)
             IN  [waiters |-> c.waiters, raises |-> c.raises, calls |-> <<l>>]
      [] l.kind = "handle_message" ->
             [waiters |-> w, raises |-> None,
              calls |-> IF handle_message(arg) THEN <<l, UserCallback(l.n)>> ELSE <<l>>]
      [] OTHER ->
             [waiters |-> w, raises |-> IF l.throws THEN "SubscriberError" ELSE None,
              calls |-> <<l>>]

\* emit(event, arg): the listeners of the channel are called in the order of
\* their registration.  An exception of a listener ends the emit: the
\* emitter of a directly driven connection lets it through, and the
\* AsyncIOEventEmitter of the provider re-emits it on "error", where nobody
\* listens, which raises it.
RECURSIVE EmitRun(_, _, _, _)
EmitRun(ls, arg, w, called) ==
    IF ls = <<>>
    THEN [invoked |-> called, raises |-> None, waiters |-> w]
    ELSE LET l == Head(ls)
             r == CallListener(l, arg, w)
         IN  IF r.raises # None
             THEN [invoked |-> called \o r.calls, raises |-> r.raises, waiters |-> r.waiters]
             ELSE EmitRun(Tail(ls), arg, r.waiters, called \o r.calls)

\* the emits of one handler, in order, up to the first that raises
RECURSIVE Publish(_, _, _, _)
Publish(events, ls, w, called) ==
    IF events = <<>>
    THEN [invoked |-> called, raises |-> None, waiters |-> w]
    ELSE LET e == EmitRun(ls[Head(events).channel], Head(events).arg, w, called)
         IN  IF e.raises # None THEN e
             ELSE Publish(Tail(events), ls, e.waiters, e.invoked)

----------------------------------------------------------------------------
(* Calls on a WebSocketApp *)

\* threading.Thread(target=WebSocketApp(...).run_forever).start()
RunForever(a) == [op |-> "run_forever", app |-> a]

\* self._websocket.close(status=1007)
Close(a) == [op |-> "close", app |-> a, status |-> CloseCode]

\* self._websocket.send(json.dumps(data), opcode=ABNF.OPCODE_TEXT)
SendFrame(a, data) == [op |-> "send", app |-> a, data |-> data]

----------------------------------------------------------------------------
(* The transport behind a WebSocketApp                                      *)
(*   "unborn"      not built yet                                            *)
(*   "connecting"  run_forever started, the socket is not connected         *)
(*   "open"        sock.connected; on_open has been delivered               *)
(*   "closing"     the socket is gone (closed by WebSocketApp.close(), or   *)
(*                 failed); the thread has on_close left to deliver         *)
(*   "closed"      on_close delivered, the thread has ended                 *)

AppStates == {"unborn", "connecting", "open", "closing", "closed"}

AppIds == 1..MaxApps

\* self._websocket and self._websocket.sock and self._websocket.sock.connected
SockConnected == websocket # 0 /\ apps[websocket] = "open"

----------------------------------------------------------------------------
(* The send() call in progress: pc is "loop" at the while test and "sleep"   *)
(* in time.sleep; elapsed is time.time() - start_time in whole seconds;     *)
(* delivered counts the frames the call has handed to the socket.           *)

NoCall == [pc |-> "none", caller |-> None, data |-> None, elapsed |-> 0, delivered |-> 0]

Returned == call.pc = "none"

\* a handler other than a returning send()
NoReturn ==
    [outcome |-> "none", caller |-> None, data |-> None, elapsed |-> 0, delivered |-> 0]

\* send() returns: "sent" after send_success = True, "failed" after
\* print("Websocket failed to send ...")
Return(outcome, c) ==
    [outcome |-> outcome, caller |-> c.caller, data |-> c.data, elapsed |-> c.elapsed,
     delivered |-> c.delivered]

----------------------------------------------------------------------------
(* What a call or a callback gives its caller when it ends: the value it    *)
(* returns and the exception it raises, None for none.                      *)

Result(name, value, raises) == [call |-> name, value |-> value, raises |-> raises]

\* a step in which no call ends
NoResult == Result("none", None, None)

\* send() ends by `return` after a successful send_data(), and by falling
\* off its end after print(...) otherwise: it returns None either way
send_result(send_success) == Result("send", None, None)

\* submit_tx after send() has returned into new_tx: `await None` raises
\* TypeError in new_tx, the except clause of submit_tx catches it, and
\* `raise parse_error(error)` raises a str, which is a TypeError again
submit_tx_result == Result("submit_tx", None, "TypeError")

\* the result of the call that ends when send() returns r
Outcome(r) ==
    IF r.outcome = "none" THEN NoResult
    ELSE IF r.caller = "submit_tx" THEN submit_tx_result
    ELSE send_result(r.outcome = "sent")

\* a handler that is given no frame and publishes nothing
Silent ==
    /\ inbound' = NoFrame
    /\ invoked' = <<>>
    /\ UNCHANGED <<listeners, waiters>>

\* what publishing `events` does in the current state; with no listener
\* registered an emit calls nobody
Emits(events) ==
    IF listeners = NoListeners
    THEN [invoked |-> <<>>, raises |-> None, waiters |-> waiters]
    ELSE Publish(events, listeners, waiters, <<>>)

\* the listeners called by the events the handler `name` published, and
\* the exception that left the handler, if one of them raised
Delivered(name) ==
    LET d == Emits(emitted') IN
    /\ invoked' = d.invoked
    /\ waiters' = d.waiters
    /\ result' = Result(name, None, d.raises)
    /\ UNCHANGED listeners

TypeOK ==
    /\ owner \in {"HydraProvider", "HydraConnection"}
    /\ pstatus \in HydraStatus
    /\ status \in HydraStatus
    /\ connected \in BOOLEAN
    /\ websocket \in 0..MaxApps
    /\ apps \in [AppIds -> AppStates]
    /\ call.pc \in {"none", "loop", "sleep"}
    /\ ret.outcome \in {"none", "sent", "failed"}
    /\ call.elapsed \in 0..SendWindow
    /\ call.delivered \in 0..(SendWindow + 1)
    /\ last \in {"init", "connect", "provider_connect", "disconnect", "send",
                 "wait_for_tx_response", "on_status_change", "provider_on_message",
                 "on_open", "on_message", "on_error", "on_close",
                 "get", "post", "hydra_assets", "to_assets", "hydra_assets_to_value",
                 "hydra_assets_from_value", "get_reference_script_info",
                 "hydra_reference_script", "to_utxo", "decommit", "commit_funds"}
    /\ race.fg.pc \in {"idle", "close", "write", "flag", "read", "emit"}
    /\ race.bg.pc \in {"idle", "close_flag", "close_read", "write", "emit"}
    /\ Len(race.published) <= Len(race.written)
    /\ prev \in HydraStatus
    /\ DOMAIN listeners = Channels
    /\ waiters \in [Waits -> FutureStates]
    /\ result.call \in {"none", "connect", "provider_connect", "disconnect", "send",
                        "submit_tx", "wait_for_tx_response", "on_status_change",
                        "provider_on_message",
                        "on_open", "on_message", "on_error", "on_close"}

----------------------------------------------------------------------------
(* HydraConnection.__init__ and HydraProvider.__init__ *)

Constructed ==
    /\ owner \in {"HydraProvider", "HydraConnection"}
    /\ pstatus = "DISCONNECTED"
    /\ status = "IDLE"
    /\ connected = FALSE
    /\ websocket = 0
    /\ apps = [a \in AppIds |-> "unborn"]
    /\ call = NoCall
    /\ ret = NoReturn
    /\ last = "init"
    /\ prev = "IDLE"
    /\ emitted = <<>>
    /\ wire = <<>>
    /\ listeners = NoListeners
    /\ waiters = NoWaiters
    /\ inbound = NoFrame
    /\ invoked = <<>>
    /\ result = NoResult
    /\ requested = <<>>
    /\ race = NoRace

\* no function is under study
NoInput == "no input"

NoOutput == "no output"

Init ==
    /\ Constructed
    /\ input = NoInput
    /\ output = NoOutput

----------------------------------------------------------------------------
(* HydraConnection.connect: a new WebSocketApp replaces self._websocket     *)
(* (the old one, if any, is neither closed nor stopped), the status is set  *)
(* and the thread is started.                                               *)

\* connect that sets CONNECTED before the transport has opened
connect_connected ==
    \E a \in AppIds :
        /\ apps[a] = "unborn"
        /\ \A b \in AppIds : b < a => apps[b] # "unborn"
        /\ websocket' = a
        /\ status' = "CONNECTED"
        /\ apps' = [apps EXCEPT ![a] = "connecting"]
        /\ wire' = <<RunForever(a)>>
        /\ UNCHANGED connected

connect ==
    \E a \in AppIds :
        /\ apps[a] = "unborn"
        /\ \A b \in AppIds : b < a => apps[b] # "unborn"
        /\ websocket' = a
        /\ status' = "CONNECTING"
        /\ apps' = [apps EXCEPT ![a] = "connecting"]
        /\ wire' = <<RunForever(a)>>
        /\ UNCHANGED connected

\* the application calls HydraConnection.connect()
Connect ==
    /\ owner = "HydraConnection"
    /\ connect
    /\ last' = "connect"
    /\ ret' = NoReturn
    /\ Silent
    /\ result' = Result("connect", None, None)
    /\ prev' = status
    /\ emitted' = <<>>
    /\ UNCHANGED <<requested, race, input, output, owner, pstatus, call>>

----------------------------------------------------------------------------
(* HydraProvider.connect *)

\* HydraProvider.connect without its status test
HydraProvider_connect_unguarded ==
    /\ connect
    /\ pstatus' = "CONNECTED"

HydraProvider_connect ==
    IF pstatus # "DISCONNECTED"
    THEN /\ wire' = <<>>
         /\ UNCHANGED <<pstatus, status, connected, websocket, apps>>
    ELSE /\ connect
         /\ pstatus' = "CONNECTED"

ProviderConnect ==
    /\ owner = "HydraProvider"
    /\ pstatus = "DISCONNECTED" => \E a \in AppIds : apps[a] = "unborn"
    /\ HydraProvider_connect
    /\ last' = "provider_connect"
    /\ ret' = NoReturn
    /\ Silent
    /\ result' = Result("provider_connect", None, None)
    /\ prev' = status
    /\ emitted' = <<>>
    /\ UNCHANGED <<requested, race, input, output, owner, call>>

----------------------------------------------------------------------------
(* Transport callbacks, run by the thread of WebSocketApp a *)

\* _on_open
on_open(a) ==
    /\ apps[a] = "connecting"
    /\ apps' = [apps EXCEPT ![a] = "open"]
    /\ connected' = TRUE
    /\ status' = "CONNECTED"
    /\ last' = "on_open"
    /\ ret' = NoReturn
    /\ Silent
    /\ result' = Result("on_open", None, None)
    /\ wire' = <<>>
    /\ prev' = status
    /\ emitted' = <<>>
    /\ UNCHANGED <<requested, race, input, output, owner, pstatus, websocket, call>>

\* process_status, called when the handler has published `published` so far
process_status(message, published) ==
    LET s == hydra_status(message) IN
    IF s # None
    THEN /\ status' = s
         /\ emitted' = published \o <<StatusEvent(s)>>
    ELSE /\ UNCHANGED status
         /\ emitted' = published

\* _on_message that publishes the frame without parsing it
on_message_unparsed(a, frame) ==
    /\ apps[a] = "open"
    /\ inbound' = frame
    /\ IF FALSE
       THEN /\ emitted' = <<>>
            /\ UNCHANGED status
       ELSE IF Emits(<<MessageEvent(frame)>>).raises # None
            THEN /\ emitted' = <<MessageEvent(frame)>>
                 /\ UNCHANGED status
            ELSE process_status(frame, <<MessageEvent(frame)>>)
    /\ Delivered("on_message")
    /\ IF result'.raises # None
       THEN connected' \in {connected, FALSE}
       ELSE UNCHANGED connected
    /\ last' = "on_message"
    /\ ret' = NoReturn
    /\ wire' = <<>>
    /\ prev' = status
    /\ UNCHANGED <<requested, race, input, output, owner, pstatus, websocket, apps, call>>

\* _on_message: json.loads raises JSONDecodeError on a bad frame, which is
\* caught and printed; a parsed message is published, then process_status
\* runs.  The except clause names JSONDecodeError only: the exception of a
\* listener leaves the handler before process_status, into the WebSocketApp
\* that called it, which logs it and, in the releases of the library that
\* do so, calls _on_error with it.
on_message(a, frame) ==
    /\ apps[a] = "open"
    /\ inbound' = frame
    /\ IF frame = BadFrame
       THEN /\ emitted' = <<>>
            /\ UNCHANGED status
       ELSE IF Emits(<<MessageEvent(frame)>>).raises # None
            THEN /\ emitted' = <<MessageEvent(frame)>>
                 /\ UNCHANGED status
            ELSE process_status(frame, <<MessageEvent(frame)>>)
    /\ Delivered("on_message")
    /\ IF result'.raises # None
       THEN connected' \in {connected, FALSE}
       ELSE UNCHANGED connected
    /\ last' = "on_message"
    /\ ret' = NoReturn
    /\ wire' = <<>>
    /\ prev' = status
    /\ UNCHANGED <<requested, race, input, output, owner, pstatus, websocket, apps, call>>

\* _on_error: the library reports a failed connect or a broken socket, and
\* goes on to tear the WebSocketApp down
on_error(a) ==
    /\ apps[a] \in {"connecting", "open"}
    /\ apps' = [apps EXCEPT ![a] = "closing"]
    /\ connected' = FALSE
    /\ last' = "on_error"
    /\ ret' = NoReturn
    /\ Silent
    /\ result' = Result("on_error", None, None)
    /\ wire' = <<>>
    /\ prev' = status
    /\ emitted' = <<>>
    /\ UNCHANGED <<requested, race, input, output, owner, pstatus, status, websocket, call>>

\* _on_close that publishes only when the status changes
on_close_if_changed(a) ==
    /\ apps[a] \in {"open", "closing"}
    /\ apps' = [apps EXCEPT ![a] = "closed"]
    /\ status' = "DISCONNECTED"
    /\ connected' = FALSE
    /\ last' = "on_close"
    /\ ret' = NoReturn
    /\ wire' = <<>>
    /\ prev' = status
    /\ emitted' = IF status = "DISCONNECTED" THEN <<>> ELSE <<StatusEvent("DISCONNECTED")>>
    /\ inbound' = NoFrame
    /\ Delivered("on_close")
    /\ UNCHANGED <<requested, race, input, output, owner, pstatus, websocket, call>>

\* _on_close: the node closed the socket (from "open"), or the teardown that
\* follows WebSocketApp.close() or an error has run (from "closing")
on_close(a) ==
    /\ apps[a] \in {"open", "closing"}
    /\ apps' = [apps EXCEPT ![a] = "closed"]
    /\ status' = "DISCONNECTED"
    /\ connected' = FALSE
    /\ last' = "on_close"
    /\ ret' = NoReturn
    /\ wire' = <<>>
    /\ prev' = status
    /\ emitted' = <<StatusEvent("DISCONNECTED")>>
    /\ inbound' = NoFrame
    /\ Delivered("on_close")
    /\ UNCHANGED <<requested, race, input, output, owner, pstatus, websocket, call>>

----------------------------------------------------------------------------
(* HydraConnection.disconnect *)

\* disconnect without the IDLE test
disconnect_unguarded ==
    /\ IF SockConnected
       THEN /\ apps' = [apps EXCEPT ![websocket] = "closing"]
            /\ wire' = <<Close(websocket)>>
       ELSE /\ wire' = <<>>
            /\ UNCHANGED apps
    /\ status' = "IDLE"
    /\ connected' = FALSE
    /\ emitted' = <<StatusEvent("IDLE")>>

\* disconnect that leaves the status and the event to _on_close when it
\* closes the socket
disconnect_close_only ==
    IF status = "IDLE"
    THEN /\ emitted' = <<>>
         /\ wire' = <<>>
         /\ UNCHANGED <<status, connected, apps>>
    ELSE IF SockConnected
         THEN /\ apps' = [apps EXCEPT ![websocket] = "closing"]
              /\ wire' = <<Close(websocket)>>
              /\ emitted' = <<>>
              /\ UNCHANGED <<status, connected>>
         ELSE /\ wire' = <<>>
              /\ status' = "IDLE"
              /\ connected' = FALSE
              /\ emitted' = <<StatusEvent("IDLE")>>
              /\ UNCHANGED apps

\* disconnect that sets DISCONNECTED
disconnect_disconnected ==
    IF status = "IDLE"
    THEN /\ emitted' = <<>>
         /\ wire' = <<>>
         /\ UNCHANGED <<status, connected, apps>>
    ELSE /\ IF SockConnected
            THEN /\ apps' = [apps EXCEPT ![websocket] = "closing"]
                 /\ wire' = <<Close(websocket)>>
            ELSE /\ wire' = <<>>
                 /\ UNCHANGED apps
         /\ status' = "DISCONNECTED"
         /\ connected' = FALSE
         /\ emitted' = <<StatusEvent("DISCONNECTED")>>

disconnect ==
    IF status = "IDLE"
    THEN /\ emitted' = <<>>
         /\ wire' = <<>>
         /\ UNCHANGED <<status, connected, apps>>
    ELSE /\ IF SockConnected
            THEN /\ apps' = [apps EXCEPT ![websocket] = "closing"]
                 /\ wire' = <<Close(websocket)>>
            ELSE /\ wire' = <<>>
                 /\ UNCHANGED apps
         /\ status' = "IDLE"
         /\ connected' = FALSE
         /\ emitted' = <<StatusEvent("IDLE")>>

Disconnect ==
    /\ owner = "HydraConnection"
    /\ disconnect
    /\ last' = "disconnect"
    /\ ret' = NoReturn
    /\ inbound' = NoFrame
    /\ Delivered("disconnect")
    /\ prev' = status
    /\ UNCHANGED <<requested, race, input, output, owner, pstatus, websocket, call>>

----------------------------------------------------------------------------
(* HydraConnection.send *)

\* send_data(): one frame goes out if the socket is connected
send_data == SockConnected

\* time.time() - start_time after a sleep of d seconds, in whole seconds; the
\* test of the loop reads it only against the window, so the clock of the
\* model stops there
Elapsed(c, d) == IF c.elapsed + d < SendWindow THEN c.elapsed + d ELSE SendWindow

\* the call, up to its return or to the first evaluation of the while test
send(caller, data) ==
    LET c == [pc |-> "loop", caller |-> caller, data |-> data, elapsed |-> 0,
              delivered |-> 0] IN
    /\ Returned
    /\ IF send_data
       THEN /\ wire' = <<SendFrame(websocket, data)>>
            /\ ret' = Return("sent", [c EXCEPT !.delivered = 1])
            /\ call' = NoCall
       ELSE /\ wire' = <<>>
            /\ ret' = NoReturn
            /\ call' = c
    /\ last' = "send"
    /\ Silent
    /\ result' = Outcome(ret')
    /\ prev' = status
    /\ emitted' = <<>>
    /\ UNCHANGED <<requested, race, input, output, owner, pstatus, status, connected, websocket, apps>>

\* the application calls send(data), or a command of the provider
\* (init, close, ...) that calls it
SendCall == \E data \in Commands : send("send", data)

\* the loop without its break: a turn that has sent goes on to sleep
SendPoll_no_break ==
    /\ call.pc = "loop"
    /\ IF call.elapsed < SendWindow
       THEN IF send_data
            THEN /\ wire' = <<SendFrame(websocket, call.data)>>
                 /\ ret' = NoReturn
                 /\ call' = [call EXCEPT !.pc = "sleep", !.delivered = call.delivered + 1]
            ELSE /\ wire' = <<>>
                 /\ ret' = NoReturn
                 /\ call' = [call EXCEPT !.pc = "sleep"]
       ELSE /\ wire' = <<>>
            /\ ret' = Return(IF call.delivered > 0 THEN "sent" ELSE "failed", call)
            /\ call' = NoCall
    /\ last' = "send"
    /\ Silent
    /\ result' = Outcome(ret')
    /\ prev' = status
    /\ emitted' = <<>>
    /\ UNCHANGED <<requested, race, input, output, owner, pstatus, status, connected, websocket, apps>>

\* the loop with a window one second short
SendPoll_short_window ==
    /\ call.pc = "loop"
    /\ IF call.elapsed < SendWindow - SleepSeconds
       THEN IF send_data
            THEN /\ wire' = <<SendFrame(websocket, call.data)>>
                 /\ ret' = Return("sent", [call EXCEPT !.delivered = call.delivered + 1])
                 /\ call' = NoCall
            ELSE /\ wire' = <<>>
                 /\ ret' = NoReturn
                 /\ call' = [call EXCEPT !.pc = "sleep"]
       ELSE /\ wire' = <<>>
            /\ ret' = Return("failed", call)
            /\ call' = NoCall
    /\ last' = "send"
    /\ Silent
    /\ result' = Outcome(ret')
    /\ prev' = status
    /\ emitted' = <<>>
    /\ UNCHANGED <<requested, race, input, output, owner, pstatus, status, connected, websocket, apps>>

\* one turn of `while not send_success and (time.time() - start_time) < 5`,
\* up to time.sleep or to the return
SendPoll ==
    /\ call.pc = "loop"
    /\ IF call.elapsed < SendWindow
       THEN IF send_data
            THEN /\ wire' = <<SendFrame(websocket, call.data)>>
                 /\ ret' = Return("sent", [call EXCEPT !.delivered = call.delivered + 1])
                 /\ call' = NoCall
            ELSE /\ wire' = <<>>
                 /\ ret' = NoReturn
                 /\ call' = [call EXCEPT !.pc = "sleep"]
       ELSE /\ wire' = <<>>
            /\ ret' = Return("failed", call)
            /\ call' = NoCall
    /\ last' = "send"
    /\ Silent
    /\ result' = Outcome(ret')
    /\ prev' = status
    /\ emitted' = <<>>
    /\ UNCHANGED <<requested, race, input, output, owner, pstatus, status, connected, websocket, apps>>

\* time.sleep(1) returns after one second or more
SendSleep ==
    \E d \in SleepSeconds..MaxSleep :
        /\ call.pc = "sleep"
        /\ call' = [call EXCEPT !.pc = "loop", !.elapsed = Elapsed(call, d)]
        /\ ret' = NoReturn
        /\ last' = "send"
        /\ Silent
        /\ result' = Outcome(ret')
        /\ prev' = status
        /\ emitted' = <<>>
        /\ wire' = <<>>
        /\ UNCHANGED <<requested, race, input, output, owner, pstatus, status, connected, websocket, apps>>

----------------------------------------------------------------------------
(* HydraProvider: the head-lifecycle commands *)

LifecycleCommands == {"init", "abort", "close", "contest", "fanout"}

\* commands that all send the tag of init
CommandTag_init_only(method) == "Init"

\* the tag of the {"tag": ...} object the method hands to send()
CommandTag(method) ==
    CASE method = "init"    -> "Init"
      [] method = "abort"   -> "Abort"
      [] method = "close"   -> "Close"
      [] method = "contest" -> "Contest"
      [] method = "fanout"  -> "Fanout"

\* init(), abort(), close(), contest() or fanout(), up to the return of
\* send() or to the first evaluation of its while test
Command ==
    \E method \in LifecycleCommands :
        /\ owner = "HydraProvider"
        /\ send(method, CommandTag(method))

\* decommit(cbor_hex, type, description), up to the return of send() or to
\* the first evaluation of its while test
Decommit ==
    \E cbor_hex \in Txs, type \in {"Tx ConwayEra", "Witnessed Tx ConwayEra"},
       description \in {"", "decommit"} :
        /\ owner = "HydraProvider"
        /\ send("decommit", [tag |-> "Decommit",
                             decommitTx |-> [type |-> type, description |-> description,
                                             cborHex |-> cbor_hex]])

----------------------------------------------------------------------------
(* HydraProvider: transactions.  submit_tx, new_tx and wait_for_tx_response *)
(* are coroutines of the application's event loop; send() is not, and a     *)
(* coroutine that calls it keeps the loop until send() returns.             *)

\* the event loop is free to run a coroutine
LoopFree == call.caller # "submit_tx"

\* submit_tx(tx), up to the return of the send() that new_tx calls with the
\* NewTx payload
SubmitTx ==
    \E tx \in Txs :
        /\ owner = "HydraProvider"
        /\ LoopFree
        /\ send("submit_tx", NewTx(tx))

\* wait_for_tx_response(tx), up to `await future`: the callback is
\* registered on "onmessage"
wait_for_tx_response(tx) ==
    /\ owner = "HydraProvider"
    /\ LoopFree
    /\ waiters[tx] = "none"
    /\ waiters' = [waiters EXCEPT ![tx] = "pending"]
    /\ listeners' = [listeners EXCEPT !["onmessage"] = Append(@, WaiterCallback(tx))]
    /\ last' = "wait_for_tx_response"
    /\ result' = NoResult
    /\ ret' = NoReturn
    /\ prev' = status
    /\ inbound' = NoFrame
    /\ invoked' = <<>>
    /\ emitted' = <<>>
    /\ wire' = <<>>
    /\ UNCHANGED <<requested, race, input, output, owner, pstatus, status, connected, websocket, apps, call>>

\* emitter.remove_listener("onmessage", callback)
RemoveListener(ls, l) == SelectSeq(ls, LAMBDA x : x # l)

\* wait_for_tx_response without its finally clause
wait_for_tx_response_return_keeps_listener(tx) ==
    /\ LoopFree
    /\ waiters[tx] \in {"resolved", "rejected"}
    /\ result' = IF waiters[tx] = "resolved"
                 THEN Result("wait_for_tx_response", TxId(tx), None)
                 ELSE Result("wait_for_tx_response", None, ValidationError(tx))
    /\ waiters' = [waiters EXCEPT ![tx] = "none"]
    /\ UNCHANGED listeners
    /\ last' = "wait_for_tx_response"
    /\ ret' = NoReturn
    /\ prev' = status
    /\ inbound' = NoFrame
    /\ invoked' = <<>>
    /\ emitted' = <<>>
    /\ wire' = <<>>
    /\ UNCHANGED <<requested, race, input, output, owner, pstatus, status, connected, websocket, apps, call>>

\* the future is done and the loop resumes wait_for_tx_response(tx):
\* `await future` returns the txId or raises the exception, and the finally
\* clause removes the callback
wait_for_tx_response_return(tx) ==
    /\ LoopFree
    /\ waiters[tx] \in {"resolved", "rejected"}
    /\ result' = IF waiters[tx] = "resolved"
                 THEN Result("wait_for_tx_response", TxId(tx), None)
                 ELSE Result("wait_for_tx_response", None, ValidationError(tx))
    /\ waiters' = [waiters EXCEPT ![tx] = "none"]
    /\ listeners' = [listeners EXCEPT !["onmessage"] = RemoveListener(@, WaiterCallback(tx))]
    /\ last' = "wait_for_tx_response"
    /\ ret' = NoReturn
    /\ prev' = status
    /\ inbound' = NoFrame
    /\ invoked' = <<>>
    /\ emitted' = <<>>
    /\ wire' = <<>>
    /\ UNCHANGED <<requested, race, input, output, owner, pstatus, status, connected, websocket, apps, call>>

----------------------------------------------------------------------------
(* HydraProvider.on_status_change *)

\* on_status_change(callback): the callback is registered on
\* "onstatuschange"; `throws` is whether it raises when called
OnStatusChange ==
    \E throws \in BOOLEAN :
        /\ owner = "HydraProvider"
        /\ Len(listeners["onstatuschange"]) < MaxSubscribers
        /\ listeners' = [listeners EXCEPT !["onstatuschange"] =
                             Append(@, Subscriber(Len(@) + 1, throws))]
        /\ last' = "on_status_change"
        /\ result' = Result("on_status_change", None, None)
        /\ ret' = NoReturn
        /\ prev' = status
        /\ inbound' = NoFrame
        /\ invoked' = <<>>
        /\ emitted' = <<>>
        /\ wire' = <<>>
        /\ UNCHANGED <<requested, race, input, output, owner, pstatus, status, connected, websocket, apps, call, waiters>>

----------------------------------------------------------------------------
(* HydraProvider.on_message *)

\* on_message(callback): handle_message is built around the callback and
\* registered with self._eventEmitter.on("onmessage", ...); reading an
\* attribute the object does not have raises AttributeError
ProviderOnMessage ==
    /\ owner = "HydraProvider"
    /\ Len(requested) < MaxSubscribers
    /\ requested' = Append(requested, UserCallback(Len(requested) + 1))
    /\ IF "_eventEmitter" \in ProviderAttributes
       THEN /\ listeners' = [listeners EXCEPT !["onmessage"] =
                                Append(@, HandleMessage(Len(requested) + 1))]
            /\ result' = Result("provider_on_message", None, None)
       ELSE /\ UNCHANGED listeners
            /\ result' = Result("provider_on_message", None, "AttributeError")
    /\ last' = "provider_on_message"
    /\ ret' = NoReturn
    /\ prev' = status
    /\ inbound' = NoFrame
    /\ invoked' = <<>>
    /\ emitted' = <<>>
    /\ wire' = <<>>
    /\ UNCHANGED <<race, input, output, owner, pstatus, status, connected, websocket, apps,
                   call, waiters>>

----------------------------------------------------------------------------
(* disconnect() on the thread of the application and the callbacks on the   *)
(* thread of a WebSocketApp, one statement at a time.  Nothing in           *)
(* HydraConnection takes a lock, so the statements of the two threads       *)
(* interleave freely.  race.fg is the thread in disconnect(), race.bg the   *)
(* thread in a callback; `arg` is the value a thread holds for its emit.    *)

\* what a statement of the handler `name` leaves in the observations
Statement(name, events, calls, ended) ==
    /\ last' = name
    /\ prev' = status
    /\ emitted' = events
    /\ wire' = calls
    /\ invoked' = <<>>
    /\ ret' = NoReturn
    /\ result' = IF ended THEN Result(name, None, None) ELSE NoResult
    /\ UNCHANGED <<requested, input, output, owner, pstatus, websocket, call, listeners, waiters>>

MayWrite == Len(race.written) < MaxWrites

\* disconnect(): `if self._status == HydraStatus.IDLE: return`
DisconnectTest ==
    /\ owner = "HydraConnection"
    /\ race.fg.pc = "idle"
    /\ MayWrite
    /\ race' = IF status = "IDLE" THEN race
               ELSE [race EXCEPT !.fg = [pc |-> "close", app |-> 0, arg |-> None]]
    /\ inbound' = NoFrame
    /\ Statement("disconnect", <<>>, <<>>, status = "IDLE")
    /\ UNCHANGED <<status, connected, apps>>

\* disconnect(): the close(status=1007) of a connected socket
DisconnectClose ==
    /\ race.fg.pc = "close"
    /\ race' = [race EXCEPT !.fg.pc = "write"]
    /\ apps' = IF SockConnected THEN [apps EXCEPT ![websocket] = "closing"] ELSE apps
    /\ inbound' = NoFrame
    /\ Statement("disconnect", <<>>, IF SockConnected THEN <<Close(websocket)>> ELSE <<>>, FALSE)
    /\ UNCHANGED <<status, connected>>

\* disconnect(): self._status = HydraStatus.IDLE
DisconnectWrite ==
    /\ race.fg.pc = "write"
    /\ status' = "IDLE"
    /\ race' = [race EXCEPT !.fg.pc = "flag", !.written = Append(@, "IDLE")]
    /\ inbound' = NoFrame
    /\ Statement("disconnect", <<>>, <<>>, FALSE)
    /\ UNCHANGED <<connected, apps>>

\* disconnect(): self._connected = False
DisconnectFlag ==
    /\ race.fg.pc = "flag"
    /\ connected' = FALSE
    /\ race' = [race EXCEPT !.fg.pc = "read"]
    /\ inbound' = NoFrame
    /\ Statement("disconnect", <<>>, <<>>, FALSE)
    /\ UNCHANGED <<status, apps>>

\* disconnect(): self._status is read for the argument of emit
DisconnectRead ==
    /\ race.fg.pc = "read"
    /\ race' = [race EXCEPT !.fg.pc = "emit", !.fg.arg = status]
    /\ inbound' = NoFrame
    /\ Statement("disconnect", <<>>, <<>>, FALSE)
    /\ UNCHANGED <<status, connected, apps>>

\* disconnect(): emit("onstatuschange", ...), and the return
DisconnectEmit ==
    /\ race.fg.pc = "emit"
    /\ race' = [race EXCEPT !.fg = NoThread, !.published = Append(@, race.fg.arg)]
    /\ inbound' = NoFrame
    /\ Statement("disconnect", <<StatusEvent(race.fg.arg)>>, <<>>, TRUE)
    /\ UNCHANGED <<status, connected, apps>>

\* _on_close of WebSocketApp a: self._status = HydraStatus.DISCONNECTED
CloseWrite(a) ==
    /\ apps[a] \in {"open", "closing"}
    /\ race.bg.pc = "idle"
    /\ MayWrite
    /\ status' = "DISCONNECTED"
    /\ apps' = [apps EXCEPT ![a] = "closed"]
    /\ race' = [race EXCEPT !.bg = [pc |-> "close_flag", app |-> a, arg |-> None],
                            !.written = Append(@, "DISCONNECTED")]
    /\ inbound' = NoFrame
    /\ Statement("on_close", <<>>, <<>>, FALSE)
    /\ UNCHANGED connected

\* _on_close: self._connected = False
CloseFlag ==
    /\ race.bg.pc = "close_flag"
    /\ connected' = FALSE
    /\ race' = [race EXCEPT !.bg.pc = "close_read"]
    /\ inbound' = NoFrame
    /\ Statement("on_close", <<>>, <<>>, FALSE)
    /\ UNCHANGED <<status, apps>>

\* _on_close: self._status is read for the argument of emit
CloseRead ==
    /\ race.bg.pc = "close_read"
    /\ race' = [race EXCEPT !.bg.pc = "emit", !.bg.arg = status]
    /\ inbound' = NoFrame
    /\ Statement("on_close", <<>>, <<>>, FALSE)
    /\ UNCHANGED <<status, connected, apps>>

\* _on_message of WebSocketApp a, up to the test of process_status: the
\* message is published, and hydra_status(message) is kept in the local
\* variable `status`
MessagePublish(a, frame) ==
    /\ apps[a] = "open"
    /\ race.bg.pc = "idle"
    /\ MayWrite
    /\ frame # BadFrame
    /\ race' = IF hydra_status(frame) = None THEN race
               ELSE [race EXCEPT !.bg = [pc |-> "write", app |-> a, arg |-> hydra_status(frame)]]
    /\ inbound' = frame
    /\ Statement("on_message", <<MessageEvent(frame)>>, <<>>, hydra_status(frame) = None)
    /\ UNCHANGED <<status, connected, apps>>

\* process_status: self._status = status
MessageWrite ==
    /\ race.bg.pc = "write"
    /\ status' = race.bg.arg
    /\ race' = [race EXCEPT !.bg.pc = "emit", !.written = Append(@, race.bg.arg)]
    /\ inbound' = NoFrame
    /\ Statement("on_message", <<>>, <<>>, FALSE)
    /\ UNCHANGED <<connected, apps>>

\* the emit("onstatuschange", ...) of _on_close or process_status, and the
\* return of the callback
CallbackEmit ==
    /\ race.bg.pc = "emit"
    /\ race' = [race EXCEPT !.bg = NoThread, !.published = Append(@, race.bg.arg)]
    /\ inbound' = NoFrame
    /\ Statement(IF apps[race.bg.app] = "closed" THEN "on_close" ELSE "on_message",
                 <<StatusEvent(race.bg.arg)>>, <<>>, TRUE)
    /\ UNCHANGED <<status, connected, apps>>

----------------------------------------------------------------------------
(* HydraProvider.get and HydraProvider.post, and parse_error *)

\* the status code of a transport that gives no response
\* (requests.ConnectionError)
Refused == 0

\* the call and the response it meets: status code, body, headers
HttpInputs ==
    [method : {"get", "post"}, status_code : {200, 201, 202, 204, 400, 404, 500, Refused},
     text : {"{}", "[1]", "<html>", ""}, headers : {"json", "plain"}]

\* Python values of the kinds that reach a `return` or a `raise` here;
\* `data`, `headers` and `status` are what the value carries of the response
PyValue(type, data, headers, status_code) ==
    [type |-> type, data |-> data, headers |-> headers, status |-> status_code]

\* response.json(): the parsed body, or requests' JSONDecodeError, which is
\* a RequestException carrying the response
ResponseJson(response) ==
    CASE response.text \in {"{}", "{\"cborHex\": \"84\"}"} -> PyValue("dict", response.text, None, 0)
      [] response.text = "[1]" -> PyValue("list", "[1]", None, 0)
      [] OTHER -> PyValue("RequestException", response.text, response.headers,
                          response.status_code)

IsException(v) == v.type \in {"RequestException", "TypeError"}

\* parse_error(error): always a str, the JSON text of what the error holds
parse_error(error) ==
    IF error.type # "RequestException"
    THEN PyValue("str", error.data, None, 0)
    ELSE PyValue("str", error.data, error.headers, error.status)

\* raise v: v itself if it is an exception, else the interpreter's
\* TypeError("exceptions must derive from BaseException")
Raise(v) == IF IsException(v) THEN v ELSE PyValue("TypeError", None, None, 0)

NoValue == PyValue("none", None, None, 0)

HttpResult(returned, raised) == [returned |-> returned, raised |-> raised]

\* the body of get and of post, which differ in the session call only
request(i) ==
    LET response == i
        \* what the try block ends with: a value returned or an exception
        try ==
            IF i.status_code = Refused
            THEN HttpResult(NoValue, PyValue("RequestException", None, None, 0))
            ELSE IF response.status_code \in {200, 202}
                 THEN IF IsException(ResponseJson(response))
                      THEN HttpResult(NoValue, ResponseJson(response))
                      ELSE HttpResult(ResponseJson(response), NoValue)
                 ELSE IF IsException(ResponseJson(response))
                      THEN HttpResult(NoValue, ResponseJson(response))
                      ELSE HttpResult(NoValue, Raise(parse_error(ResponseJson(response))))
    IN  IF try.raised = NoValue
        THEN try
        ELSE HttpResult(NoValue, Raise(parse_error(try.raised)))

HttpRequest ==
    /\ last = "init"
    /\ input \in HttpInputs
    /\ output' = request(input)
    /\ last' = input.method
    /\ UNCHANGED <<owner, pstatus, status, connected, websocket, apps, call, ret, prev,
                   emitted, wire, listeners, waiters, inbound, invoked, result, requested,
                   race, input>>

HttpInit == Constructed /\ owner = "HydraProvider" /\ input \in HttpInputs /\ output = NoOutput

HttpSpec == HttpInit /\ [][HttpRequest]_vars

----------------------------------------------------------------------------
(* models/assets.py: hydra_assets.  A dict is the set of its items,        *)
(* <<key, value>> pairs with one pair per key.                              *)

RECURSIVE ListsUpTo(_, _)
ListsUpTo(S, n) ==
    IF n = 0 THEN {<<>>}
    ELSE LET shorter == ListsUpTo(S, n - 1)
         IN  shorter \cup {Append(l, e) : l \in {x \in shorter : Len(x) = n - 1}, e \in S}

\* lists of (unit, quantity) entries; the units are the empty one, the
\* lovelace key and two other keys
AssetLists == ListsUpTo({"", "lovelace", "a", "b"} \X {-1, 0, 1, 2}, MaxEntries)

\* result.get(key, 0)
DictGet(d, key) == IF \E item \in d : item[1] = key
                   THEN (CHOOSE item \in d : item[1] = key)[2]
                   ELSE 0

\* result[key] = value
DictSet(d, key, value) == {item \in d : item[1] # key} \cup {<<key, value>>}

\* what a call gives: the dict returned, or the exception raised and the
\* unit its message names
Returns(value) == [raises |-> None, about |-> None, value |-> value]

Raises(exception, unit) == [raises |-> exception, about |-> unit, value |-> {}]

\* unit = "lovelace" if not unit else f"{unit}"
UnitKey(unit) == IF unit = "" THEN "lovelace" ELSE unit

Accumulate_overwrite(totals, unit, quantity) == DictSet(totals, UnitKey(unit), quantity)

\* result[unit] = result.get(unit, 0) + quantity
Accumulate(totals, unit, quantity) ==
    DictSet(totals, UnitKey(unit), DictGet(totals, UnitKey(unit)) + quantity)

NonZero_keep_all(totals) == totals

\* {key: value for key, value in result.items() if value != 0}
NonZero(totals) == {item \in totals : item[2] # 0}

\* the loop `for unit, quantity in assets`; an entry that is not a pair
\* fails the unpacking with ValueError
RECURSIVE hydra_assets_loop(_, _)
hydra_assets_loop(assets, totals) ==
    IF assets = <<>> THEN Returns(NonZero(totals))
    ELSE LET entry == Head(assets)
         IN  IF Len(entry) # 2 THEN Raises("ValueError", None)
             ELSE IF entry[2] < 0 THEN Raises("ValueError", entry[1])
             ELSE hydra_assets_loop(Tail(assets), Accumulate(totals, entry[1], entry[2]))

hydra_assets(assets) == hydra_assets_loop(assets, {<<"lovelace", 0>>})

HydraAssets ==
    /\ last = "init"
    /\ input \in AssetLists
    /\ output' = hydra_assets(input)
    /\ last' = "hydra_assets"
    /\ UNCHANGED <<owner, pstatus, status, connected, websocket, apps, call, ret, prev,
                   emitted, wire, listeners, waiters, inbound, invoked, result, requested,
                   race, input>>

AssetsInit == Constructed /\ owner = "HydraProvider" /\ input \in AssetLists /\ output = NoOutput

AssetsSpec == AssetsInit /\ [][HydraAssets]_vars

----------------------------------------------------------------------------
(* models/assets.py: to_assets, hydra_assets_from_value and                 *)
(* hydra_assets_to_value.  A unit is the tuple of its characters, bytes are *)
(* the tuple of their two hex digits, and a dict is given as the list of    *)
(* its items, in the order .items() yields them.                            *)

Chars(c, n) == [i \in 1..n |-> c]

Lovelace == <<"l", "o", "v", "e", "l", "a", "c", "e">>

\* lovelace; two policies; a policy with an asset name; units of 2 and of
\* 55 characters; 56 characters that are not hex digits
ValueUnits ==
    {Lovelace, Chars("a", PolicyChars), Chars("b", PolicyChars),
     Chars("a", PolicyChars) \o <<"T">>, <<"a", "b">>, Chars("a", PolicyChars - 1),
     Chars("z", PolicyChars)}

ValueDicts ==
    {d \in ListsUpTo(ValueUnits \X {1, 2}, MaxUnits) :
        \A i, j \in 1..Len(d) : d[i][1] = d[j][1] => i = j}

\* bytes.fromhex(text): the bytes, or ValueError
FromHex(text) ==
    IF /\ Len(text) % 2 = 0
       /\ \A i \in 1..Len(text) :
              text[i] \in {"0", "1", "2", "3", "4", "5", "6", "7", "8", "9",
                           "a", "b", "c", "d", "e", "f"}
    THEN Returns([i \in 1..(Len(text) \div 2) |-> <<text[2 * i - 1], text[2 * i]>>])
    ELSE Raises("ValueError", "fromhex")

\* text.encode("utf-8"), for the characters asset names are made of here
Utf8(text) ==
    [i \in 1..Len(text) |-> CASE text[i] = "T" -> <<"5", "4">>
                               [] text[i] = "a" -> <<"6", "1">>
                               [] text[i] = "b" -> <<"6", "2">>
                               [] text[i] = "z" -> <<"7", "a">>]

\* str(policy_id): the hex text of the hash
Hex(payload) == [i \in 1..(2 * Len(payload)) |-> payload[(i + 1) \div 2][2 - (i % 2)]]

\* ScriptHash(payload) is a pycardano ConstrainedBytes, which asserts the
\* size of its payload (28 bytes): AssertionError, or, in an interpreter
\* that strips assert statements (python -O), a hash of any size
ScriptHash(payload, optimized) ==
    IF 2 * Len(payload) = PolicyChars \/ optimized
    THEN Returns(payload)
    ELSE Raises("AssertionError", None)

\* a coin and a multi_asset, which is the set of its
\* <<policy, asset name, quantity>> entries: a pycardano Value, or the dict
\* of the same two keys that to_assets builds
Value(coin, multi_asset) == [coin |-> coin, multi_asset |-> multi_asset]

\* multi_asset[policy][name] = quantity
SetAsset(multi_asset, policy, name, quantity) ==
    {a \in multi_asset : ~(a[1] = policy /\ a[2] = name)} \cup {<<policy, name, quantity>>}

RECURSIVE to_assets_loop(_, _, _)
to_assets_loop(items, coin, multi_asset) ==
    IF items = <<>> THEN Returns(Value(coin, multi_asset))
    ELSE LET unit == Head(items)[1]
             quantity == Head(items)[2]
             policy_hash == IF FromHex(SubSeq(unit, 1, PolicyChars)).raises # None
                            THEN FromHex(SubSeq(unit, 1, PolicyChars))
                            ELSE ScriptHash(FromHex(SubSeq(unit, 1, PolicyChars)).value, FALSE)
             asset_name == Utf8(SubSeq(unit, PolicyChars + 1, Len(unit)))
         IN  IF quantity = 0 THEN to_assets_loop(Tail(items), coin, multi_asset)
             ELSE IF quantity < 0 THEN Raises("ValueError", "Negative quantity")
             ELSE IF unit = Lovelace THEN to_assets_loop(Tail(items), quantity, multi_asset)
             ELSE IF Len(unit) < PolicyChars THEN Raises("ValueError", "Invalid unit length")
             ELSE IF policy_hash.raises = "ValueError"
                  THEN Raises("ValueError", "Invalid policy_id")
             ELSE to_assets_loop(Tail(items), coin,
                                 SetAsset(multi_asset, policy_hash.value, asset_name, quantity))

to_assets(items) == to_assets_loop(items, 0, {})

RECURSIVE hydra_assets_to_value_loop(_, _, _, _)
hydra_assets_to_value_loop(items, lovelace, multi_asset, optimized) ==
    IF items = <<>> THEN Returns(Value(lovelace, multi_asset))
    ELSE LET unit == Head(items)[1]
             quantity == Head(items)[2]
             policy_id == IF Len(unit) >= PolicyChars THEN SubSeq(unit, 1, PolicyChars) ELSE <<>>
             asset_name == IF Len(unit) > PolicyChars
                           THEN SubSeq(unit, PolicyChars + 1, Len(unit)) ELSE <<>>
             policy_hash == IF policy_id = <<>> THEN ScriptHash(<<>>, optimized)
                            ELSE IF FromHex(policy_id).raises # None THEN FromHex(policy_id)
                            ELSE ScriptHash(FromHex(policy_id).value, optimized)
         IN  IF unit = Lovelace
             THEN hydra_assets_to_value_loop(Tail(items), quantity, multi_asset, optimized)
             ELSE IF policy_hash.raises = "ValueError"
                  THEN Raises("ValueError", "Invalid policy_id")
             ELSE IF policy_hash.raises # None THEN policy_hash
             ELSE hydra_assets_to_value_loop(
                      Tail(items), lovelace,
                      SetAsset(multi_asset, policy_hash.value, Utf8(asset_name), quantity),
                      optimized)

hydra_assets_to_value(items, optimized) == hydra_assets_to_value_loop(items, 0, {}, optimized)

RECURSIVE ListOf(_)
\* the items of a dict in the order its iteration yields them
ListOf(d) == IF d = {} THEN <<>> ELSE LET x == CHOOSE x \in d : TRUE IN <<x>> \o ListOf(d \ {x})

\* the entries collected are triples, which hydra_assets unpacks as pairs
hydra_assets_from_value(value) ==
    hydra_assets(
        (IF value.coin > 0 THEN <<<<"", <<>>, value.coin>>>> ELSE <<>>)
        \o [i \in 1..Cardinality(value.multi_asset) |->
               LET a == ListOf(value.multi_asset)[i] IN <<Hex(a[1]), a[2], a[3]>>])

ToAssets ==
    /\ last = "init"
    /\ output' = to_assets(input)
    /\ last' = "to_assets"
    /\ UNCHANGED <<owner, pstatus, status, connected, websocket, apps, call, ret, prev,
                   emitted, wire, listeners, waiters, inbound, invoked, result, requested,
                   race, input>>

HydraAssetsToValue ==
    /\ last = "init"
    /\ \E optimized \in BOOLEAN : output' = hydra_assets_to_value(input, optimized)
    /\ last' = "hydra_assets_to_value"
    /\ UNCHANGED <<owner, pstatus, status, connected, websocket, apps, call, ret, prev,
                   emitted, wire, listeners, waiters, inbound, invoked, result, requested,
                   race, input>>

\* hydra_assets_from_value(V) for the V that hydra_assets_to_value returned
HydraAssetsFromValue ==
    /\ last = "hydra_assets_to_value"
    /\ output.raises = None
    /\ output' = hydra_assets_from_value(output.value)
    /\ last' = "hydra_assets_from_value"
    /\ UNCHANGED <<owner, pstatus, status, connected, websocket, apps, call, ret, prev,
                   emitted, wire, listeners, waiters, inbound, invoked, result, requested,
                   race, input>>

ValueInit == Constructed /\ owner = "HydraProvider" /\ input \in ValueDicts /\ output = NoOutput

ValueNext == ToAssets \/ HydraAssetsToValue \/ HydraAssetsFromValue

ValueSpec == ValueInit /\ [][ValueNext]_vars

----------------------------------------------------------------------------
(* models/hydra_reference_script.py: get_reference_script_info.  A script  *)
(* reference is given by what each stage of its decoding meets:             *)
(*   ref      absent (None), empty (""), or a text                          *)
(*   hex      whether the text is hex digits                                *)
(*   outer    what cbor2.loads finds: malformed bytes, an integer, a list,  *)
(*            or a tagged item                                              *)
(*   tag      the tag number of a tagged item                               *)
(*   payload  the value under the tag: bytes, an integer or a text          *)
(*   inner    what the bytes under the tag hold: malformed bytes, an        *)
(*            integer, a list of one item, a list of two items              *)
(*   type_id  the first item of the list of two                             *)
(*   content  the second item: a native script ([0, key hash]), a list no   *)
(*            native script has ([9, h'']), bytes, no bytes (h''), or a     *)
(*            text                                                          *)

ScriptRefs ==
    [ref : {"absent", "empty", "text"}, hex : BOOLEAN,
     outer : {"malformed", "int", "list", "tag"}, tag : {24, 121},
     payload : {"bytes", "int", "text"},
     inner : {"malformed", "int", "list1", "list2"}, type_id : 0..4,
     content : {"native", "rejected", "bytes", "empty", "text"}]

HydraScriptInfomation(script_instance, script_type, script_language) ==
    [raises |-> None, script_instance |-> script_instance, script_type |-> script_type,
     script_language |-> script_language]

\* an exception that leaves get_reference_script_info
Escapes(exception) ==
    [raises |-> exception, script_instance |-> None, script_type |-> None,
     script_language |-> None]

\* f"PlutusScriptV{script_type_id}" and
\* f"PlutusScriptLanguage PlutusScriptV{script_type_id}"
PlutusVersion ==
    [n \in 1..3 |->
        CASE n = 1 -> [type |-> "PlutusScriptV1", language |-> "PlutusScriptLanguage PlutusScriptV1"]
          [] n = 2 -> [type |-> "PlutusScriptV2", language |-> "PlutusScriptLanguage PlutusScriptV2"]
          [] n = 3 -> [type |-> "PlutusScriptV3", language |-> "PlutusScriptLanguage PlutusScriptV3"]]

\* `lenient` is the release of pycardano: NativeScript.from_primitive either
\* raises DeserializeException for what is no native script, or returns
\* None for it.  Only ValueError and cbor2.CBORError are caught (line 57).
get_reference_script_info(script_ref, lenient) ==
    LET Unknown == HydraScriptInfomation(None, "Unknown", None) IN
    IF script_ref.ref # "text" THEN Unknown
    ELSE IF ~script_ref.hex THEN Unknown                     \* ValueError, caught
    ELSE IF script_ref.outer = "malformed" THEN Unknown      \* CBORError, caught
    ELSE IF ~(script_ref.outer = "tag" /\ script_ref.tag = 24) THEN Unknown
    ELSE IF script_ref.payload # "bytes" THEN Escapes("TypeError")   \* cbor2.loads(5)
    ELSE IF script_ref.inner = "malformed" THEN Unknown      \* CBORError, caught
    ELSE IF script_ref.inner # "list2" THEN Unknown
    ELSE IF script_ref.type_id = 0
         THEN IF script_ref.content = "native"
              THEN HydraScriptInfomation("NativeScript", "SimpleScript",
                                         "NativeScriptLanguage SimpleScript")
              ELSE IF lenient
                   THEN HydraScriptInfomation(None, "SimpleScript",
                                              "NativeScriptLanguage SimpleScript")
                   ELSE Escapes("DeserializeException")
    ELSE IF script_ref.type_id \in 1..3
         THEN IF script_ref.content \in {"bytes", "empty"}
              THEN HydraScriptInfomation(IF script_ref.content = "empty"
                                         THEN "PlutusScript(b'')" ELSE "PlutusScript",
                                         PlutusVersion[script_ref.type_id].type,
                                         PlutusVersion[script_ref.type_id].language)
              ELSE Escapes("TypeError")                      \* bytes("text"), bytes([0, b".."])
    ELSE Unknown

GetReferenceScriptInfo ==
    /\ last = "init"
    /\ \E lenient \in BOOLEAN : output' = get_reference_script_info(input, lenient)
    /\ last' = "get_reference_script_info"
    /\ UNCHANGED <<owner, pstatus, status, connected, websocket, apps, call, ret, prev,
                   emitted, wire, listeners, waiters, inbound, invoked, result, requested,
                   race, input>>

\* `returned` is "None" or "HydraReferenceScript", whose fields follow;
\* `info` is what get_reference_script_info gave.  A PlutusScript is a
\* bytes object, which `not` takes for false when it is empty.
hydra_reference_script(script_reference, lenient) ==
    LET info == get_reference_script_info(script_reference, lenient)
        reference(returned) ==
            [raises |-> info.raises, returned |-> returned, info |-> info,
             script_language |-> IF returned = None THEN None ELSE info.script_language,
             type |-> IF returned = None THEN None ELSE info.script_type]
    IN  IF info.raises # None THEN reference(None)
        ELSE IF \/ script_reference.ref # "text"
                \/ info.script_instance \in {None, "PlutusScript(b'')"}
                \/ info.script_language = None
             THEN reference(None)
        ELSE reference("HydraReferenceScript")

HydraReferenceScript ==
    /\ last = "init"
    /\ \E lenient \in BOOLEAN : output' = hydra_reference_script(input, lenient)
    /\ last' = "hydra_reference_script"
    /\ UNCHANGED <<owner, pstatus, status, connected, websocket, apps, call, ret, prev,
                   emitted, wire, listeners, waiters, inbound, invoked, result, requested,
                   race, input>>

ScriptRefInit == Constructed /\ owner = "HydraProvider" /\ input \in ScriptRefs /\ output = NoOutput

ScriptRefSpec == ScriptRefInit /\ [][GetReferenceScriptInfo \/ HydraReferenceScript]_vars

----------------------------------------------------------------------------
(* types/hydra_utxos.py: to_utxo.  The reference tx_id is the tuple of its *)
(* characters.  The HydraUTxO converted holds {"lovelace": 2}, no datum and *)
(* no reference script, so that what decides the outcome is the reference.  *)

to_utxo_first_separator(tx_id, optimized) ==
    LET separators == {i \in 1..Len(tx_id) : tx_id[i] = "#"}
        at == CHOOSE i \in separators : \A j \in separators : i <= j
        index == SubSeq(tx_id, at + 1, Len(tx_id))
        payload == FromHex(SubSeq(tx_id, 1, at - 1))
    IN  IF separators = {} \/ index = <<>> \/ \E i \in 1..Len(index) : index[i] \notin {"1", "2"}
        THEN Raises("ValueError", "Invalid TxId Format")
        ELSE IF payload.raises # None THEN Raises("ValueError", "fromhex")
        ELSE IF Len(payload.value) # 32 /\ ~optimized THEN Raises("AssertionError", None)
        ELSE Returns([transaction_id |-> payload.value, index |-> 1,
                      amount |-> to_assets(<<<<Lovelace, 2>>>>).value])

\* `optimized`: TransactionId is a pycardano ConstrainedBytes, which asserts
\* a payload of 32 bytes unless assert statements are stripped (python -O)
to_utxo(tx_id, optimized) ==
    LET separators == {i \in 1..Len(tx_id) : tx_id[i] = "#"}
        at == CHOOSE i \in separators : TRUE
        \* tx_id.split("#"), when it has two parts
        transaction_id == SubSeq(tx_id, 1, at - 1)
        index == SubSeq(tx_id, at + 1, Len(tx_id))
        digits == IF index # <<>> /\ index[1] = "-" THEN Tail(index) ELSE index
        \* int(index): an optional sign and decimal digits, else ValueError
        IsInt == digits # <<>> /\ \A i \in 1..Len(digits) : digits[i] \in {"1", "2"}
        RECURSIVE Decimal(_)
        Decimal(ds) == IF ds = <<>> THEN 0
                       ELSE 10 * Decimal(SubSeq(ds, 1, Len(ds) - 1))
                            + (IF ds[Len(ds)] = "1" THEN 1 ELSE 2)
        Int_ == IF index[1] = "-" THEN 0 - Decimal(digits) ELSE Decimal(digits)
        \* TransactionId.from_primitive(transaction_id)
        payload == FromHex(transaction_id)
    IN  IF Cardinality(separators) # 1 THEN Raises("ValueError", "Invalid TxId Format")
        ELSE IF ~IsInt THEN Raises("ValueError", "Invalid TxId Format")
        ELSE IF payload.raises # None THEN Raises("ValueError", "fromhex")
        ELSE IF Len(payload.value) # 32 /\ ~optimized THEN Raises("AssertionError", None)
        ELSE Returns([transaction_id |-> payload.value, index |-> Int_,
                      amount |-> to_assets(<<<<Lovelace, 2>>>>).value])

ToUtxo ==
    /\ last = "init"
    /\ \E optimized \in BOOLEAN : output' = to_utxo(input, optimized)
    /\ last' = "to_utxo"
    /\ UNCHANGED <<owner, pstatus, status, connected, websocket, apps, call, ret, prev,
                   emitted, wire, listeners, waiters, inbound, invoked, result, requested,
                   race, input>>

\* references: a transaction id part (64 hex digits, 2 hex digits, none, or
\* 64 characters that are no hex digits) and what follows it
UtxoInit ==
    /\ Constructed
    /\ owner = "HydraProvider"
    /\ input \in {id \o rest : id \in {Chars("a", 64), <<"a", "b">>, <<>>, Chars("z", 64)},
                                rest \in ListsUpTo({"#", "1", "2", "x", "-"}, MaxRefTail)}
    /\ output = NoOutput

UtxoSpec == UtxoInit /\ [][ToUtxo]_vars

----------------------------------------------------------------------------
(* HydraInstance.commit_funds (instances/hydra_instance.py) *)

\* pyhydra.utils.errors: wraps the exception it is given into the error
\* that the caller raises
errors(exception) == [raises |-> exception, requests |-> <<>>, returned |-> None]

commit_funds(i) ==
    LET utxos == i.utxos
        \* f"{transaction_id}#{index}"
        reference == <<i.transaction_id, "#", i.index>>
        payload == [reference |-> reference,
                    address |-> "addr_test1qpqx6032",
                    datum |-> None, datumhash |-> None, inlineDatum |-> None,
                    referenceScript |-> None,
                    value |-> [lovelace |-> 50000000]]
        \* build_commit: self.post("commit", payload=payload, headers=headers)
        commit == request([method |-> "post", status_code |-> i.status_code,
                           text |-> i.text, headers |-> "json"])
        requests == <<[url |-> "commit", payload |-> payload]>>
    IN  IF utxos = <<>>
        THEN errors("UTxO not found!")
        ELSE IF commit.raised # NoValue
        THEN [raises |-> commit.raised.type, requests |-> requests, returned |-> None]
        \* commit.get("cborHex")
        ELSE IF commit.returned.type # "dict"
        THEN [raises |-> "AttributeError", requests |-> requests, returned |-> None]
        ELSE [raises |-> None, requests |-> requests,
              returned |-> IF commit.returned.data = "{}" THEN None ELSE "84"]

CommitFunds ==
    /\ last = "init"
    /\ output' = commit_funds(input)
    /\ last' = "commit_funds"
    /\ UNCHANGED <<owner, pstatus, status, connected, websocket, apps, call, ret, prev,
                   emitted, wire, listeners, waiters, inbound, invoked, result, requested,
                   race, input>>

\* a call of commit_funds and what it meets: the list the fetcher returns
\* for the reference, and the node's response to the commit request
CommitInit ==
    /\ Constructed
    /\ owner = "HydraProvider"
    /\ output = NoOutput
    /\ input \in
           [transaction_id : {"aa", "bb"}, index : {0, 1},
            utxos : {<<>>} \cup
                    {<<u>> : u \in [address : {"addr_test1qpqx6032", "addr_test1vz09v9yf"},
                                    lovelace : {50000000, 2000000}]},
            status_code : {200, 404, Refused},
            text : {"{\"cborHex\": \"84\"}", "{}", "[1]"}]

CommitSpec == CommitInit /\ [][CommitFunds]_vars

----------------------------------------------------------------------------

Next ==
    \/ Connect
    \/ ProviderConnect
    \/ Disconnect
    \/ SendCall
    \/ SendPoll
    \/ SendSleep
    \/ \E a \in AppIds : on_open(a)
    \/ \E a \in AppIds, frame \in Frames : on_message(a, frame)
    \/ \E a \in AppIds : on_error(a)
    \/ \E a \in AppIds : on_close(a)

Spec == Init /\ [][Next]_vars

\* The connection with a transport that never becomes ready: the handshake
\* of no WebSocketApp completes, so _on_open and _on_message never run.
NeverReadyNext ==
    \/ Connect
    \/ ProviderConnect
    \/ Disconnect
    \/ SendCall
    \/ SendPoll
    \/ SendSleep
    \/ \E a \in AppIds : on_error(a)
    \/ \E a \in AppIds : on_close(a)

\* the thread that called send() keeps running: time.sleep returns and the
\* loop goes on
NeverReadySpec ==
    Init /\ [][NeverReadyNext]_vars /\ WF_vars(SendPoll) /\ WF_vars(SendSleep)

\* A connection the application drives itself, with disconnect() and the
\* callbacks taken one statement at a time.

\* no thread is inside disconnect() or a callback
Quiescent == race.fg.pc = "idle" /\ race.bg.pc = "idle"

\* connect() and _on_open are taken whole and between handlers, so that the
\* only statements that interleave are those of disconnect() and of the
\* message and close callbacks
RaceNext ==
    \/ Quiescent /\ Connect
    \/ Quiescent /\ \E a \in AppIds : on_open(a)
    \/ DisconnectTest
    \/ DisconnectClose
    \/ DisconnectWrite
    \/ DisconnectFlag
    \/ DisconnectRead
    \/ DisconnectEmit
    \/ \E a \in AppIds : CloseWrite(a)
    \/ CloseFlag
    \/ CloseRead
    \/ \E a \in AppIds,
          frame \in {m \in Messages : m.tag \in {"HeadIsOpen", "HeadIsClosed"}
                                        /\ m.headStatus = None} :
          MessagePublish(a, frame)
    \/ MessageWrite
    \/ CallbackEmit

RaceInit == Init /\ owner = "HydraConnection"

RaceSpec == RaceInit /\ [][RaceNext]_vars

\* A provider that submits transactions and waits for the node's answers.
ProviderInit == Init /\ owner = "HydraProvider"

TxNext ==
    \/ ProviderConnect
    \/ SubmitTx
    \/ SendPoll
    \/ SendSleep
    \/ \E tx \in Txs : wait_for_tx_response(tx)
    \/ \E tx \in Txs : wait_for_tx_response_return(tx)
    \/ \E a \in AppIds : on_open(a)
    \/ \E a \in AppIds, frame \in TxMessages : on_message(a, frame)
    \/ \E a \in AppIds : on_error(a)
    \/ \E a \in AppIds : on_close(a)

TxSpec == ProviderInit /\ [][TxNext]_vars

\* A provider whose application makes several calls of
\* wait_for_tx_response with the same cborHex.
SameTxNext ==
    \/ ProviderConnect
    \/ \E tx \in Waits : TxOf(tx) = "A" /\ wait_for_tx_response(tx)
    \/ \E tx \in Waits : wait_for_tx_response_return(tx)
    \/ \E a \in AppIds : on_open(a)
    \/ \E a \in AppIds, frame \in {m \in TxMessages : m.headStatus = None} : on_message(a, frame)
    \/ \E a \in AppIds : on_error(a)
    \/ \E a \in AppIds : on_close(a)

SameTxSpec == ProviderInit /\ [][SameTxNext]_vars

\* A provider that issues the head-lifecycle commands while its
\* application listens to the status changes.
CommandFrames == {m \in Messages : m.headStatus = None}

CommandNext ==
    \/ ProviderConnect
    \/ OnStatusChange
    \/ Command
    \/ SendPoll
    \/ SendSleep
    \/ \E a \in AppIds : on_open(a)
    \/ \E a \in AppIds, frame \in CommandFrames : on_message(a, frame)
    \/ \E a \in AppIds : on_error(a)
    \/ \E a \in AppIds : on_close(a)

CommandSpec == ProviderInit /\ [][CommandNext]_vars

\* the node's answers to Decommit
DecommitFrames ==
    [tag : {"DecommitRequested", "DecommitApproved", "DecommitFinalized", "DecommitInvalid"},
     headStatus : {None}]

\* A provider that decommits while its application subscribes to the
\* messages.
DecommitNext ==
    \/ ProviderConnect
    \/ ProviderOnMessage
    \/ Decommit
    \/ SendPoll
    \/ SendSleep
    \/ \E a \in AppIds : on_open(a)
    \/ \E a \in AppIds, frame \in DecommitFrames : on_message(a, frame)
    \/ \E a \in AppIds : on_error(a)
    \/ \E a \in AppIds : on_close(a)

DecommitSpec == ProviderInit /\ [][DecommitNext]_vars

\* A provider whose application listens to the status changes.
SubscriberNext ==
    \/ ProviderConnect
    \/ OnStatusChange
    \/ ProviderOnMessage
    \/ \E a \in AppIds : on_open(a)
    \/ \E a \in AppIds, frame \in Frames : on_message(a, frame)
    \/ \E a \in AppIds : on_error(a)
    \/ \E a \in AppIds : on_close(a)

SubscriberSpec == ProviderInit /\ [][SubscriberNext]_vars

----------------------------------------------------------------------------
(* Transport close *)

\* C1: whatever the status was, a transport-close callback leaves the status
\* DISCONNECTED and publishes exactly one status-change event, which carries
\* DISCONNECTED.
C1_CloseSetsDisconnected ==
    last = "on_close" =>
        /\ status = "DISCONNECTED"
        /\ StatusEvents(emitted) = <<StatusEvent("DISCONNECTED")>>

\* a transport close that found the head open
C1_Witness ==
    /\ last = "on_close"
    /\ prev = "OPEN"
    /\ status = "DISCONNECTED"
    /\ emitted = <<StatusEvent("DISCONNECTED")>>

----------------------------------------------------------------------------
(* Connecting *)

\* C2: connect() called in IDLE leaves the status CONNECTING, and a
\* transport-open callback leaves it CONNECTED: with the open following the
\* connect, the statuses seen are IDLE, CONNECTING, CONNECTED and no other.
C2_ConnectThenOpen ==
    /\ (last \in {"connect", "provider_connect"} /\ prev = "IDLE") => status = "CONNECTING"
    /\ last = "on_open" => status = "CONNECTED"

\* the transport opened right after a connect
C2_Witness ==
    /\ last = "on_open"
    /\ prev = "CONNECTING"
    /\ status = "CONNECTED"
    /\ websocket = 1
    /\ apps[1] = "open"

----------------------------------------------------------------------------
(* Status extraction *)

\* the table of the claim
C3_Table(m) ==
    IF m.headStatus = "Open" \/ m.tag = "HeadIsOpen" THEN "OPEN"
    ELSE IF m.tag = "HeadIsInitializing" THEN "INITIALIZING"
    ELSE IF m.tag = "HeadIsClosed" THEN "CLOSED"
    ELSE IF m.tag = "ReadyToFanout" THEN "FANOUT_POSSIBLE"
    ELSE IF m.tag = "HeadIsFinalized" THEN "FINAL"
    ELSE None

\* C3: for a parsed message the table gives a status for, the status is set
\* to it and one status-change event carrying it is published; for every
\* other parsed message the status stays and no status-change event is
\* published.
C3_StatusExtraction ==
    (last = "on_message" /\ emitted # <<>>) =>
        LET m == emitted[1].arg IN
        /\ emitted[1] = MessageEvent(m)
        /\ m \in Messages
        /\ IF C3_Table(m) # None
           THEN /\ status = C3_Table(m)
                /\ StatusEvents(emitted) = <<StatusEvent(C3_Table(m))>>
           ELSE /\ status = prev
                /\ StatusEvents(emitted) = <<>>

\* a Greetings message with headStatus "Open" arrived while the status was
\* CONNECTED
C3_Witness ==
    /\ last = "on_message"
    /\ prev = "CONNECTED"
    /\ emitted = <<MessageEvent([tag |-> "Greetings", headStatus |-> "Open"]),
                   StatusEvent("OPEN")>>
    /\ status = "OPEN"

----------------------------------------------------------------------------
(* Disconnecting *)

\* C4: disconnect() called in IDLE leaves the status IDLE, closes no
\* transport and publishes nothing.
C4_DisconnectIdleNoOp ==
    (last = "disconnect" /\ prev = "IDLE") =>
        /\ status = "IDLE"
        /\ wire = <<>>
        /\ emitted = <<>>

\* disconnect() called in IDLE on a connection whose transport was built
\* (an earlier disconnect() found it still connecting)
C4_Witness ==
    /\ last = "disconnect"
    /\ prev = "IDLE"
    /\ status = "IDLE"
    /\ websocket # 0
    /\ emitted = <<>>

C6_DisconnectResetsIdle ==
    last = "disconnect" => status = "IDLE"

\* disconnect() called after the head was finalized
C6_Witness ==
    /\ last = "disconnect"
    /\ prev = "FINAL"
    /\ status = "IDLE"

----------------------------------------------------------------------------
(* The client's connect() *)

C8_Reconnects ==
    (last = "provider_connect" /\ prev = "DISCONNECTED") =>
        /\ status = "CONNECTING"
        /\ Len(wire) = 1 /\ wire[1].op = "run_forever"

----------------------------------------------------------------------------
(* send() *)

\* C9: a send() that finds the socket connected, at the call or at a turn of
\* the loop inside the window, hands the frame to the socket and returns; no
\* call hands over more than one frame, and a call that returns "sent" has
\* handed over exactly one.
C9_SendOnce ==
    [][ /\ ( /\ last' = "send"
             /\ SockConnected
             /\ call.pc \in {"none", "loop"}
             /\ call.elapsed < SendWindow ) =>
                 /\ ret'.outcome = "sent"
                 /\ ret'.delivered = 1
                 /\ wire' = <<SendFrame(websocket, ret'.data)>>
                 /\ call.pc = "loop" => ret'.data = call.data
        /\ call'.delivered = 0
        /\ ret'.delivered <= 1
        /\ (ret'.outcome = "sent") = (ret'.delivered = 1)
        /\ (ret'.outcome # "sent") => (wire' = <<>> \/ last' # "send") ]_vars

\* the transport opened three seconds into the call, and the next turn sent
C9_Witness ==
    /\ ret.outcome = "sent"
    /\ ret.elapsed = 3
    /\ ret.delivered = 1
    /\ wire = <<SendFrame(websocket, ret.data)>>

\* C10: on a transport that never becomes ready, every send() returns; it
\* returns having given up, with the window of five seconds passed and no
\* frame handed over, and the failure is its outcome, not an exception.
C10_SendGivesUp ==
    /\ [](ret.outcome # "sent")
    /\ [](ret.outcome = "failed" =>
              /\ ret.elapsed >= SendWindow
              /\ ret.delivered = 0
              /\ wire = <<>>)
    /\ (call.pc # "none") ~> (ret.outcome = "failed")

\* send() gave up while the transport was still connecting
C10_Witness ==
    /\ ret.outcome = "failed"
    /\ ret.elapsed = SendWindow
    /\ websocket # 0
    /\ apps[websocket] = "connecting"

----------------------------------------------------------------------------
(* send: what the caller learns *)

\* C11: a send() whose retry window ran out without a frame going out ends
\* in an explicit error for its caller (the application, or the lifecycle
\* command of the provider that called it): it raises, or returns a value
\* other than the None of a successful send.
C11_FailureSurfaced ==
    (ret.outcome = "failed" /\ ret.caller = "send") =>
        (result.raises # None \/ result.value # send_result(TRUE).value)

----------------------------------------------------------------------------
(* submit_tx *)

\* C12: a submit_tx(tx) whose NewTx command went out waits for the node's
\* answer: it sent one frame, which carries tx, and it ends only by
\* returning the transaction id of a matching TxValid (or by raising the
\* validation error of a matching TxInvalid, C13).
C12_SubmitReturnsTxId ==
    (result.call = "submit_tx" /\ ret.outcome = "sent") =>
        \E tx \in Txs :
            /\ ret.data = NewTx(tx)
            /\ ret.delivered = 1
            /\ \/ result.raises = None /\ result.value = TxId(tx)
               \/ result.raises = ValidationError(tx)

\* C13: a submit_tx(tx) whose NewTx command went out and that ends in an
\* error raises one that carries the validation error of a TxInvalid for tx.
C13_InvalidRaisesPayload ==
    (result.call = "submit_tx" /\ ret.outcome = "sent" /\ result.raises # None) =>
        \E tx \in Txs : ret.data = NewTx(tx) /\ result.raises = ValidationError(tx)

----------------------------------------------------------------------------
(* wait_for_tx_response *)

\* the callback of wait_for_tx_response(tx) is registered on "onmessage"
Subscribed(tx) ==
    \E i \in 1..Len(listeners["onmessage"]) : listeners["onmessage"][i] = WaiterCallback(tx)

\* C14: the future of a pending wait for tx is resolved or rejected only by
\* _on_message, and only with a message whose transaction.cborHex is tx: a
\* message that carries other bytes leaves it as it was.
C14_NoCrossMatch ==
    [][\A tx \in Txs :
          /\ (last' = "on_message" /\ CborHex(inbound') # tx) => waiters'[tx] = waiters[tx]
          /\ (waiters[tx] = "pending" /\ waiters'[tx] \in {"resolved", "rejected"}) =>
                 (last' = "on_message" /\ CborHex(inbound') = tx)]_vars

\* two waits are pending, a TxValid for A arrives: A is resolved, B still waits
C14_Witness ==
    /\ last = "on_message"
    /\ inbound = [tag |-> "TxValid", headStatus |-> None, cborHex |-> "A"]
    /\ Len(invoked) = 2
    /\ result.raises = None
    /\ waiters["A"] = "resolved"
    /\ waiters["B"] = "pending"

\* C15: when the transport-close callback has set DISCONNECTED, no
\* wait_for_tx_response call is left pending: each was failed with a
\* connection-lost error.
C15_WaitersFailedOnClose ==
    last = "on_close" => \A tx \in Txs : waiters[tx] # "pending"

\* C16: the callbacks registered on "onmessage" are exactly those of the
\* wait_for_tx_response calls in progress: once a call has returned the
\* transaction id or raised the validation error, its callback is gone.
C16_SubscriptionRemoved ==
    \A tx \in Txs : Subscribed(tx) <=> waiters[tx] # "none"

\* the wait for B has just raised the validation error; only the callback of
\* the wait for A, still in progress, is registered
C16_Witness ==
    /\ result = Result("wait_for_tx_response", None, ValidationError("B"))
    /\ listeners["onmessage"] = <<WaiterCallback("A")>>
    /\ waiters["A"] # "none"

\* C17: _on_message raises no error, whatever the messages before it were:
\* a second message that matches a wait whose future is already done is
\* ignored.
C17_SecondMatchHarmless ==
    last = "on_message" => result.raises = None

----------------------------------------------------------------------------
(* Frames that do not parse *)

\* C18: a frame that json.loads rejects is dropped: _on_message publishes
\* no event and calls no listener, leaves the status as it was and raises
\* nothing, and the WebSocketApp that delivered the frame is still open, so
\* its thread goes on to deliver the frames that follow.
C18_BadFrameDropped ==
    inbound = BadFrame =>
        /\ emitted = <<>>
        /\ invoked = <<>>
        /\ status = prev
        /\ result = Result("on_message", None, None)
        /\ \E a \in AppIds : apps[a] = "open"

\* a bad frame arrives while the head is open
C18_Witness ==
    /\ last = "on_message"
    /\ inbound = BadFrame
    /\ status = "OPEN"

----------------------------------------------------------------------------
(* Status-change events *)

\* C19: a handler that changes the connection status publishes exactly one
\* status-change event, which carries the new status; this includes
\* IDLE -> CONNECTING in connect() and CONNECTING -> CONNECTED in _on_open.
C19_TransitionPublishes ==
    status # prev => StatusEvents(emitted) = <<StatusEvent(status)>>

\* C20: when a status-change event is published, every callback registered
\* with on_status_change is called with it, in the order of registration,
\* whether or not one of them raises.
C20_AllSubscribersCalled ==
    StatusEvents(emitted) # <<>> => invoked = listeners["onstatuschange"]

----------------------------------------------------------------------------
(* Delivery on the message channel *)

\* C21: _on_message handles the frames one after the other, and every
\* frame that parses is delivered to every listener registered on
\* "onmessage" when it arrives, in the order of registration.
C21_DeliveredToAll ==
    (last = "on_message" /\ inbound # BadFrame) => invoked = listeners["onmessage"]

----------------------------------------------------------------------------
(* Lifecycle commands *)

\* the command each method is to send
C23_Table ==
    [init |-> "Init", abort |-> "Abort", close |-> "Close", contest |-> "Contest",
     fanout |-> "Fanout"]

\* C23: every step of a lifecycle command leaves the connection status, the
\* listeners and the pending waits as they were; the only frame it writes
\* is the command of its method, written once when the call ends as sent
\* and never when it ends as failed; and the call can end in the step it is
\* made, without any inbound message.
C23_FireAndForget ==
    [][(last' = "send") =>
          LET method == IF ret'.outcome # "none" THEN ret'.caller ELSE call'.caller IN
          /\ method \in LifecycleCommands
          /\ status' = status
          /\ listeners' = listeners
          /\ waiters' = waiters
          /\ emitted' = <<>>
          /\ wire' \in {<<>>, <<SendFrame(websocket, C23_Table[method])>>}
          /\ ret'.outcome = "sent" => (wire' # <<>> /\ ret'.delivered = 1)
          /\ ret'.outcome = "failed" => (wire' = <<>> /\ ret'.delivered = 0)]_vars

\* fanout() returns in the step it is called, the frame written, while a
\* callback listens to the status changes
C23_Witness ==
    /\ last = "send"
    /\ ret.caller = "fanout"
    /\ ret.outcome = "sent"
    /\ ret.elapsed = 0
    /\ wire = <<SendFrame(websocket, "Fanout")>>
    /\ listeners["onstatuschange"] # <<>>

----------------------------------------------------------------------------
(* Command-style message subscription *)

\* C24: when a message arrives, every callback the application has passed
\* to HydraProvider.on_message is called if the tag of the message is one
\* of the recognized tags, and is not called otherwise.
C24_RecognizedTagsDelivered ==
    (last = "on_message" /\ inbound # BadFrame) =>
        \A i \in 1..Len(requested) :
            (\E j \in 1..Len(invoked) : invoked[j] = requested[i])
                <=> inbound.tag \in RecognizedTags

----------------------------------------------------------------------------
(* Status writes and their events across the threads *)

\* C22: a status write and the publication of its event are one step:
\* whenever no thread is inside disconnect() or a callback, the
\* status-change events published are the statuses written, in the order
\* they were written, so the last event carries the status last written.
C22_WritesAndEventsAgree ==
    Quiescent => race.published = race.written

----------------------------------------------------------------------------
(* HTTP helpers *)

\* C25: get and post return the body of a 200 or 202 response, and for
\* every other status code fail with an error that carries the response's
\* body, headers and status code.
C25_HttpOutcome ==
    (last \in {"get", "post"} /\ input.status_code # Refused /\ input.text \in {"{}", "[1]"}) =>
        IF input.status_code \in {200, 202}
        THEN output.raised = NoValue /\ output.returned.data = input.text
        ELSE /\ output.returned = NoValue
             /\ output.raised.data = input.text
             /\ output.raised.headers = input.headers
             /\ output.raised.status = input.status_code

----------------------------------------------------------------------------
(* Asset values *)

RECURSIVE SumOf(_, _)
\* the sum of the quantities that the entries give for a key of the result
SumOf(assets, key) ==
    IF assets = <<>> THEN 0
    ELSE (IF UnitKey(Head(assets)[1]) = key THEN Head(assets)[2] ELSE 0) + SumOf(Tail(assets), key)

\* C26: hydra_assets returns, per unit, the sum of its quantities, the empty
\* unit counted as "lovelace", without any entry of quantity 0 or below; and
\* when a quantity of the input is negative it raises an error that names
\* a unit whose quantity is negative, and returns nothing.
C26_SumsPerUnit ==
    last = "hydra_assets" =>
        LET NegativeAt == {i \in 1..Len(input) : input[i][2] < 0} IN
        IF NegativeAt = {}
        THEN /\ output.raises = None
             /\ \A item \in output.value : item[2] > 0 /\ item[2] = SumOf(input, item[1])
             /\ \A item1, item2 \in output.value : item1[1] = item2[1] => item1 = item2
             /\ \A i \in 1..Len(input) :
                    SumOf(input, UnitKey(input[i][1])) # 0 =>
                        \E item \in output.value : item[1] = UnitKey(input[i][1])
             /\ \A item \in output.value : item[1] # ""
        ELSE /\ output.raises = "ValueError"
             /\ output.value = {}
             /\ \E i \in NegativeAt : output.about = input[i][1]

C26_Witness ==
    /\ last = "hydra_assets"
    /\ input = <<<<"", 1>>, <<"a", 0>>, <<"lovelace", 2>>>>
    /\ output = Returns({<<"lovelace", 3>>})

\* C27: hydra_assets is commutative and idempotent: the entries given in
\* any other order give the same outcome (the same dict, or a failure
\* again), and the items of a returned dict, given back in any order, give
\* that dict.
C27_CommutativeIdempotent ==
    last = "hydra_assets" =>
        LET n == Len(input)
            perms == {p \in [1..n -> 1..n] : \A i, j \in 1..n : p[i] = p[j] => i = j}
            \* every order in which the entries of the input can be given
            Orders == {[i \in 1..n |-> input[p[i]]] : p \in perms}
        IN
        /\ \A shuffled \in Orders :
               /\ hydra_assets(shuffled).raises = output.raises
               /\ hydra_assets(shuffled).value = output.value
        /\ output.raises = None =>
               \A items \in {l \in ListsUpTo(output.value, Cardinality(output.value)) :
                                {l[i] : i \in 1..Len(l)} = output.value} :
                   hydra_assets(items) = output

C27_Witness ==
    /\ last = "hydra_assets"
    /\ input = <<<<"a", 1>>, <<"", 2>>, <<"a", 2>>>>
    /\ output = Returns({<<"a", 3>>, <<"lovelace", 2>>})

\* the units of a dict are all "lovelace" or a policy id of 56 hex digits
\* followed by an asset name
ValidUnits(items) ==
    \A i \in 1..Len(items) :
        \/ items[i][1] = Lovelace
        \/ Len(items[i][1]) >= PolicyChars /\ FromHex(SubSeq(items[i][1], 1, PolicyChars)).raises = None

\* C28: hydra_assets_from_value and hydra_assets_to_value are mutually
\* inverse: for a dict v with valid units and positive quantities,
\* hydra_assets_from_value(hydra_assets_to_value(v)) returns v; as the value
\* V in between has no duplicate pair and no zero or negative quantity,
\* this is also hydra_assets_to_value(hydra_assets_from_value(V)) = V.
C28_RoundTrip ==
    (last = "hydra_assets_from_value" /\ ValidUnits(input)) =>
        /\ output.raises = None
        /\ Cardinality(output.value) = Len(input)

\* C29: a dict with a unit other than "lovelace" of fewer than 56
\* characters is rejected with the invalid-unit-length error by the
\* conversion to a ledger value; none returns a value for it.
C29_ShortUnitRejected ==
    (/\ last \in {"to_assets", "hydra_assets_to_value"}
     /\ \E i \in 1..Len(input) : input[i][1] # Lovelace /\ Len(input[i][1]) < PolicyChars
     /\ \A j \in 1..Len(input) : Len(input[j][1]) < PolicyChars \/ ValidUnits(<<input[j]>>)) =>
        /\ output.raises = "ValueError"
        /\ output.about = "Invalid unit length"

----------------------------------------------------------------------------
(* Script references *)

\* C30: get_reference_script_info never raises: for every script reference
\* it returns a classification, and when no script was decoded the
\* classification is "Unknown" with no language.
C30_NeverRaises ==
    last = "get_reference_script_info" =>
        /\ output.raises = None
        /\ output.script_instance = None =>
               (output.script_type = "Unknown" /\ output.script_language = None)

\* C31: a tag-24 envelope over [0, native script] is classified
\* SimpleScript, over [n, bytes] with n in 1..3 PlutusScriptVn, and an
\* envelope with another tag, another inner shape or another type id
\* Unknown; and hydra_reference_script returns None exactly when the
\* reference is empty or absent or no language was produced.
C31_Classification ==
    last = "hydra_reference_script" =>
        LET envelope == /\ input.ref = "text" /\ input.hex /\ input.outer = "tag"
                        /\ input.payload = "bytes"
            script == envelope /\ input.tag = 24 /\ input.inner = "list2"
        IN  /\ output.raises = None
            /\ (script /\ input.type_id = 0 /\ input.content = "native") =>
                   output.info.script_type = "SimpleScript"
            /\ (script /\ input.type_id \in 1..3 /\ input.content \in {"bytes", "empty"}) =>
                   output.info.script_type = PlutusVersion[input.type_id].type
            /\ (envelope /\ (\/ input.tag # 24
                             \/ input.inner \in {"int", "list1"}
                             \/ input.inner = "list2" /\ input.type_id = 4)) =>
                   (output.info.script_type = "Unknown" /\ output.info.script_language = None)
            /\ output.returned = None <=>
                   (input.ref # "text" \/ output.info.script_language = None)

----------------------------------------------------------------------------
(* UTxO references *)

\* C32: to_utxo splits the reference on "#": a reference with no "#", with
\* more than one "#", or with an index that is no integer raises the
\* invalid-format error and gives no UTxO; otherwise the UTxO input it
\* gives has the transaction id before the separator and the index after.
C32_ReferenceParsed ==
    last = "to_utxo" =>
        LET separators == {i \in 1..Len(input) : input[i] = "#"}
            at == CHOOSE i \in separators : TRUE
            after == SubSeq(input, at + 1, Len(input))
            unsigned == IF after # <<>> /\ after[1] = "-" THEN Tail(after) ELSE after
            IsInteger == unsigned # <<>> /\ \A i \in 1..Len(unsigned) : unsigned[i] \in {"1", "2"}
            \* the decimal text of a number whose digits are 1 and 2
            RECURSIVE Text(_)
            Text(n) == IF n = 0 THEN <<>>
                       ELSE IF n < 0 THEN <<"-">> \o Text(0 - n)
                       ELSE Text(n \div 10) \o <<IF n % 10 = 1 THEN "1" ELSE "2">>
        IN  IF Cardinality(separators) # 1 \/ ~IsInteger
            THEN output = Raises("ValueError", "Invalid TxId Format")
            ELSE /\ output.about # "Invalid TxId Format"
                 /\ output.raises = None =>
                        /\ Hex(output.value.transaction_id) = SubSeq(input, 1, at - 1)
                        /\ Text(output.value.index) = after
                 /\ SubSeq(input, 1, at - 1) = Chars("a", 64) => output.raises = None

C32_Witness ==
    /\ last = "to_utxo"
    /\ input = Chars("a", 64) \o <<"#", "1", "2">>
    /\ output.raises = None
    /\ output.value.index = 12

----------------------------------------------------------------------------
(* Responses between the command and the subscription *)

\* C33: submit_tx(tx) has its callback registered on "onmessage" before the
\* NewTx command can reach the node: when the send() of the command has
\* written the frame, the callback that matches tx is registered.
C33_SubscribedBeforeDelivery ==
    (result.call = "submit_tx" /\ ret.outcome = "sent") =>
        \E tx \in Txs : ret.data = NewTx(tx) /\ Subscribed(tx)

----------------------------------------------------------------------------
(* Callbacks after disconnect() *)

\* C34: once disconnect() has returned IDLE, the callbacks of the closed
\* transport (its close callback, a message still in flight) leave the
\* status IDLE and publish no status-change event.
C34_QuietAfterDisconnect ==
    (last \in {"on_close", "on_message"} /\ prev = "IDLE") =>
        (status = "IDLE" /\ StatusEvents(emitted) = <<>>)

----------------------------------------------------------------------------
(* Where the head statuses are entered from *)

\* C35: a status derived from a message (INITIALIZING, OPEN, CLOSED,
\* FANOUT_POSSIBLE, FINAL) is entered only from CONNECTED or from another
\* such status, never directly from IDLE, CONNECTING or DISCONNECTED.
C35_HeadStatusFromConnected ==
    LET derived == {"INITIALIZING", "OPEN", "CLOSED", "FANOUT_POSSIBLE", "FINAL"}
    IN  (status \in derived /\ prev # status) => prev \in derived \cup {"CONNECTED"}

----------------------------------------------------------------------------
(* The message event and the status of one frame *)

\* C36: for a parsed frame that carries a status, _on_message publishes the
\* message event, then sets the status and publishes the status-change
\* event, also when a listener of the message event raises.
C36_MessageThenStatus ==
    (last = "on_message" /\ inbound # BadFrame /\ hydra_status(inbound) # None) =>
        /\ emitted = <<MessageEvent(inbound), StatusEvent(hydra_status(inbound))>>
        /\ status = hydra_status(inbound)

----------------------------------------------------------------------------
(* Committing a UTxO *)

\* C39: commit_funds raises the "UTxO not found" error and makes no commit
\* request when the fetcher returns no UTxO; otherwise it makes exactly one
\* commit request, keyed by "transaction_id#index", with the address and
\* the value of the fetched UTxO, and returns the cborHex of the response.
C39_CommitFetchedUtxo ==
    last = "commit_funds" =>
        IF input.utxos = <<>>
        THEN output.raises = "UTxO not found!" /\ output.requests = <<>>
        ELSE /\ Len(output.requests) = 1
             /\ output.requests[1].url = "commit"
             /\ output.requests[1].payload.reference = <<input.transaction_id, "#", input.index>>
             /\ output.requests[1].payload.address = input.utxos[1].address
             /\ output.requests[1].payload.value.lovelace = input.utxos[1].lovelace
             /\ (output.raises = None /\ input.text # "{}") => output.returned = "84"

----------------------------------------------------------------------------
(* Decommit *)

\* C38: decommit makes one send of the Decommit command that carries type,
\* description and cborHex: every step of it leaves the listeners and the
\* pending waits as they were, the only frame it writes is that command,
\* written once when the call ends as sent, and it reads no inbound message;
\* and a DecommitRequested, DecommitApproved, DecommitFinalized or
\* DecommitInvalid message that arrives is delivered to every callback the
\* application has subscribed to the messages.
C38_DecommitFireAndForget ==
    [][/\ (last' = "send") =>
             LET c == IF ret'.outcome # "none" THEN ret' ELSE call' IN
             /\ c.caller = "decommit"
             /\ c.data.tag = "Decommit"
             /\ DOMAIN c.data.decommitTx = {"type", "description", "cborHex"}
             /\ listeners' = listeners
             /\ waiters' = waiters
             /\ emitted' = <<>>
             /\ wire' \in {<<>>, <<SendFrame(websocket, c.data)>>}
             /\ ret'.outcome = "sent" => (wire' # <<>> /\ ret'.delivered = 1)
             /\ ret'.outcome = "failed" => (wire' = <<>> /\ ret'.delivered = 0)
       /\ (last' = "on_message" /\ inbound' \in DecommitFrames) =>
             \A i \in 1..Len(requested') :
                 \E j \in 1..Len(invoked') : invoked'[j] = requested'[i]]_vars

----------------------------------------------------------------------------
(* Pending submissions of the same bytes *)

\* C37: when several waits for the same transaction bytes are pending, a
\* TxValid or TxInvalid message that carries those bytes completes every
\* one of them, all with the same outcome, and none of them stays pending.
C37_SameBytesAllComplete ==
    [][\A tx \in Txs :
          LET pending == {w \in Waits : TxOf(w) = tx /\ waiters[w] = "pending"} IN
          (/\ Cardinality(pending) > 1
           /\ last' = "on_message"
           /\ inbound' \in TxMessages
           /\ CborHex(inbound') = tx) =>
              \A w \in pending :
                  waiters'[w] = IF inbound'.tag = "TxValid" THEN "resolved" ELSE "rejected"]_vars

====
